---------------------------- MODULE Spec2Model ----------------------------
(***************************************************************************)
(* Reservation leases and conversation sessions of the student marketplace *)
(* front end.                                                              *)
(*                                                                         *)
(* The client code (hooks, pages and components under src/) is translated  *)
(* from the source.  The lease manager and the session manager run on a    *)
(* server whose code is not part of the sources; they are modelled from    *)
(* the specification (sections 3 to 5) and are marked as such where they   *)
(* are defined.                                                            *)
(*                                                                         *)
(* There are several specifications over one state.  SpecLease is the     *)
(* lease manager under the create and cancel requests of its clients, the  *)
(* expiry sweep and the clock.  SpecClient is the browser session of the   *)
(* signed-in user Me, with the reservation hooks and their handlers,       *)
(* against a server that may answer anything.  SpecSession is the session  *)
(* manager under the contact requests of Me's browser and of another       *)
(* principal.  SpecRetention is the message log of the sessions under      *)
(* posts and the clock.  SpecChat is the cache of the chat hooks of Me     *)
(* under posts, live events, transport drops and fetches.  SpecSocket is   *)
(* the socket of the chat window with its effects, input handlers and      *)
(* timer.  SpecApi is the fetch of the chat through the API client.        *)
(* SpecSell is the image list of the Sell page against the creation of     *)
(* products.  SpecCard renders the product card.  SpecOpen is the way     *)
(* from the contact dialog into the chat window, SpecEcho the sending of   *)
(* a message on the socket and the events that come back, SpecTyping the   *)
(* typing indicator under a socket that stays connected, SpecExpiry the    *)
(* chat window over the end of the retention window of its chat, and       *)
(* SpecRooms one chat window over two chats of Me.                         *)
(***************************************************************************)
EXTENDS Integers, Sequences, FiniteSets, TLC

(***************************************************************************)
(* Bounds of the model.                                                    *)
(***************************************************************************)
\* The number of leases the server ever creates.
MaxLeases == 2

\* The number of sessions the server ever creates.
MaxSessions == 3

\* The number of messages the server ever stores.
MaxMessages == 2

(***************************************************************************)
(* Identifiers.  An id is a sequence of characters, so that the object-id  *)
(* format check works on what the id contains.                             *)
(***************************************************************************)
Rep(c, n) == [i \in 1..n |-> c]

Digits == <<"1", "2", "3", "4", "5", "6", "7", "8", "9">>

\* A 24-character hexadecimal id: 23 times the hex digit c, then the digit n.
Oid(c, n) == Rep(c, 23) \o <<Digits[n]>>

HexChars ==
    {"0", "1", "2", "3", "4", "5", "6", "7", "8", "9",
     "a", "b", "c", "d", "e", "f", "A", "B", "C", "D", "E", "F"}

\* The pattern without its anchors: /[0-9a-fA-F]{24}/.test(id)
isValidObjectIdUnanchored(id) ==
    \E k \in 0..(Len(id) - 24) : \A i \in 1..24 : id[k + i] \in HexChars

\* /^[0-9a-fA-F]{24}$/.test(id)
isValidObjectId(id) ==
    /\ Len(id) = 24
    /\ \A i \in 1..Len(id) : id[i] \in HexChars

\* The server keeps its entities under small keys and shows them to its
\* clients under object ids.
UserKeys == {1, 2}
UserIds == [k \in UserKeys |-> Oid("b", k)]
UserId(k) == UserIds[k]

\* The signed-in user of the modelled browser session, and another principal.
Me == UserId(1)
Other == UserId(2)
Users == {UserId(k) : k \in UserKeys}

\* The products of the catalog.
ProductKeys == {1, 2}
ProductIds == [k \in ProductKeys |-> Oid("a", k)]
ProductId(k) == ProductIds[k]
Products == {ProductId(k) : k \in ProductKeys}

\* The id the server gives to its n-th lease.
LeaseIds == [n \in 1..Len(Digits) |-> Oid("e", n)]
LeaseId(n) == LeaseIds[n]

\* The id the server gives to its n-th session.
SessionIds == [n \in 1..Len(Digits) |-> Oid("c", n)]
SessionId(n) == SessionIds[n]

\* A well-formed id that names nothing on the server.
UnknownId == Rep("F", 24)

\* Ids that are not 24 hexadecimal characters: empty, too short, too long,
\* a character outside the hexadecimal digits.
MalformedIds ==
    {<<>>, Rep("a", 23), Rep("a", 25), Rep("a", 23) \o <<"g">>}

(***************************************************************************)
(* Time.  The clock counts milliseconds, as Date.now() does.  A date       *)
(* travels as a string: the server writes an ISO string, the client parses *)
(* it with new Date(s).getTime(), which is NaN for a string that is no     *)
(* date.                                                                   *)
(***************************************************************************)
MsPerMinute == 60 * 1000

\* The ReservationDuration type: 30 | 60 | 120 | 1440.
DURATION_OPTIONS == {30, 60, 120, 1440}

\* Date.prototype.toISOString: millisecond precision, so no instant is lost.
toISOString(ms) == [kind |-> "iso", ms |-> ms]
EmptyString == [kind |-> "empty", ms |-> 0]
InvalidDateString == [kind |-> "invalid", ms |-> 0]

\* new Date(s).getTime()
getTime(s) ==
    IF s.kind = "iso" THEN [nan |-> FALSE, v |-> s.ms] ELSE [nan |-> TRUE, v |-> 0]


(***************************************************************************)
(* State.                                                                  *)
(***************************************************************************)
VARIABLES
    now,                 \* the clock, in milliseconds
    leases,              \* server: the lease store, a sequence of leases
    sweepPending         \* server: leases the sweep has read as due, not yet written

leaseVars == <<now, leases, sweepPending>>

VARIABLES
    myData,              \* client: data of useMyReservations
    productReservation,  \* client: data of useProductReservation
    reservation,         \* client: data of useReservation
    stale,               \* client: the cached queries that are invalidated
    toast,               \* client: the toast on screen
    lastRequest          \* client: the last request sent to the server

clientVars == <<myData, productReservation, reservation, stale, toast, lastRequest>>

VARIABLES
    sessions,            \* server: the session store, a sequence of sessions
    location             \* client: the route the router is at, with its state

sessionVars == <<sessions, location>>

VARIABLES
    messages,            \* server: the message store, in the order of acceptance
    summaries,           \* server: per session, its last message and unread counters
    lastPost,            \* server: the answer to the last postMessage
    room,                \* hub: the members joined to the room of the open chat
    inbox,               \* hub: receive_message events on their way to Me's socket
    messagesData,        \* client: data of useMessages for the open chat
    chatsData,           \* client: data of useChats
    pendingMessages,     \* client: the answer to a fetch of the messages, on its way
    pendingChats         \* client: the answer to a fetch of the chats, on its way

chatVars == <<messages, summaries, lastPost, room, inbox, messagesData, chatsData,
              pendingMessages, pendingChats>>

VARIABLES
    socketStatus,        \* useSocket: status
    socket,              \* useSocket: the socket exists (socketRef.current)
    chatId,              \* ChatWindow: the chat of the route, <<>> when there is none
    emitted,             \* the events the last step emitted on the socket
    isTyping,            \* useChatSocket: Me is typing
    otherUserTyping,     \* useChatSocket: the typing indicator of the other user
    typingSince,         \* the instant the indicator was last switched on
    transportDropped,    \* the transport dropped since the route last changed
    messageText,         \* ChatWindow: the text of the input
    typingTimeout        \* ChatWindow: the timer of typingTimeoutRef

socketVars == <<socketStatus, socket, chatId, emitted, isTyping, otherUserTyping, typingSince, transportDropped,
                messageText, typingTimeout>>

\* The state of the pages that are no part of the specification at hand.
VARIABLES
    chat,                \* useChat: data
    chatError,           \* useChat: error, Null when there is none
    chatFetch            \* what the last fetch of the chat met on the wire

apiVars == <<chat, chatError, chatFetch>>

VARIABLES
    imageFiles,          \* Sell: the images selected, each the number of its selection
    uploads,             \* Sell: the selections being compressed
    selections,          \* Sell: the number of selections made
    listings,            \* server: the number of images of each product created
    productResponse      \* Sell: the status that answered the last submission

sellVars == <<imageFiles, uploads, selections, listings, productResponse>>

VARIABLES
    card,                \* ProductCard: its props and what it renders, Null before
    lastInputAt,         \* ChatWindow: the instant of the last change of the input
    isExpired,           \* ChatWindow: isExpired of the last render
    joinedChats,         \* the chats with a join_chat emitted and no leave_chat since
    messagesOf           \* client: the cached message list of each chat of a route

viewVars == <<card, lastInputAt, isExpired, joinedChats, messagesOf>>

pageVars == <<chatVars, socketVars, apiVars, sellVars, viewVars>>

vars == <<leaseVars, clientVars, sessionVars, pageVars>>

Null == [kind |-> "null"]

\* The data of a query that has not fetched.
Undefined == [kind |-> "undefined"]

(***************************************************************************)
(* The lease manager (server).  Modelled from the specification, sections  *)
(* 3, 4.1 and 5: the server's code is not among the sources.               *)
(***************************************************************************)
LeaseIndexes == 1..Len(leases)

\* The index of the lease with this id, 0 when there is none.
IndexOfLease(ls, id) ==
    IF \E i \in 1..Len(ls) : LeaseId(ls[i].key) = id
    THEN CHOOSE i \in 1..Len(ls) : LeaseId(ls[i].key) = id
    ELSE 0

\* The expiry timestamp has passed.
IsDue(l) == now >= l.expiresAt

\* The single transition function: compare-and-set on the status field,
\* keyed by lease.  It writes only over ACTIVE; otherwise the caller
\* observes a conflict and the store is left as it was.
\* A compare-and-set that never fails: the last writer wins.
CasAlwaysCommits(ls, i) == TRUE

CasCommits(ls, i) == ls[i].status = "ACTIVE"

\* A transition that writes the status without comparing it.
TransitionUnguarded(ls, i, to) == [ls EXCEPT ![i].status = to]

Transition(ls, i, to) ==
    IF CasCommits(ls, i) THEN [ls EXCEPT ![i].status = to] ELSE ls

\* The ACTIVE leases of a product.
ActiveOf(ls, productId) ==
    {i \in 1..Len(ls) : ProductId(ls[i].product) = productId /\ ls[i].status = "ACTIVE"}

NewLease(n, productId, holderId, durationMinutes) ==
    [key |-> n,
     product |-> CHOOSE k \in ProductKeys : ProductId(k) = productId,
     holder |-> CHOOSE k \in UserKeys : UserId(k) = holderId,
     reservedAt |-> now, expiresAt |-> now + durationMinutes * MsPerMinute,
     status |-> "ACTIVE", durationMinutes |-> durationMinutes]

\* A lease as it travels in a response body.
ToJSON(l) ==
    [kind |-> "reservation", _id |-> LeaseId(l.key), productId |-> ProductId(l.product),
     userId |-> UserId(l.holder), reservedAt |-> toISOString(l.reservedAt),
     expiresAt |-> toISOString(l.expiresAt), status |-> l.status,
     durationMinutes |-> l.durationMinutes]

\* The body that answers a create request: { reservation, message }.
Created(l) == [kind |-> "created", reservation |-> ToJSON(l)]

Response(status, message, body) ==
    [status |-> status, message |-> message, body |-> body]

\* A createLease that does not look for an ACTIVE lease of the product.
createLeaseUnchecked(ls, productId, holderId, durationMinutes) ==
    LET l == NewLease(Len(ls) + 1, productId, holderId, durationMinutes)
    IN  IF durationMinutes \notin DURATION_OPTIONS
        THEN [leases |-> ls, response |-> Response(400, "Invalid duration", Null)]
        ELSE IF productId \notin Products
        THEN [leases |-> ls, response |-> Response(404, "Product not found", Null)]
        ELSE [leases |-> Append(ls, l),
              response |-> Response(201, "Reservation created", Created(l))]

\* createLease(productId, holderId, durationMinutes) on the store ls: the
\* store after the call, and the response.
createLease(ls, productId, holderId, durationMinutes) ==
    LET held == ActiveOf(ls, productId)
    IN  IF durationMinutes \notin DURATION_OPTIONS
        THEN [leases |-> ls, response |-> Response(400, "Invalid duration", Null)]
        ELSE IF productId \notin Products
        THEN [leases |-> ls, response |-> Response(404, "Product not found", Null)]
        ELSE IF held # {}
        THEN [leases |-> ls,
              response |-> Response(409, "Product is already reserved",
                                    [kind |-> "conflict",
                                     existingLeaseId |-> LeaseId(ls[CHOOSE i \in held : TRUE].key)])]
        ELSE LET l == NewLease(Len(ls) + 1, productId, holderId, durationMinutes)
             IN  [leases |-> Append(ls, l),
                  response |-> Response(201, "Reservation created", Created(l))]

\* cancelLease(leaseId, requesterId) on the store ls
cancelLease(ls, leaseId, requesterId) ==
    LET i == IndexOfLease(ls, leaseId)
    IN  IF i = 0
        THEN [leases |-> ls, response |-> Response(404, "Reservation not found", Null)]
        ELSE IF UserId(ls[i].holder) # requesterId
        THEN [leases |-> ls, response |-> Response(403, "Not your reservation", Null)]
        ELSE [leases |-> Transition(ls, i, "CANCELLED"),
              response |-> IF CasCommits(ls, i)
                           THEN Response(200, "Reservation cancelled", Null)
                           ELSE Response(409, "Reservation is not active", Null)]

\* The body that lists leases: { reservations }.
Listed(ls) == [kind |-> "list", reservations |-> [i \in 1..Len(ls) |-> ToJSON(ls[i])]]

\* getLeaseForProduct(productId): the current ACTIVE lease or none.
getLeaseForProduct(ls, productId) ==
    LET held == ActiveOf(ls, productId)
    IN  IF held = {} THEN Response(200, "", Null)
        ELSE Response(200, "", ToJSON(ls[CHOOSE i \in held : TRUE]))

\* listLeases(userId): the user's leases, each with its status and expiry.
listLeases(ls, userId) ==
    LET mine == SelectSeq(ls, LAMBDA l : UserId(l.holder) = userId)
    IN  Response(200, "", Listed(mine))

(***************************************************************************)
(* The API client: request() of the fetch wrapper.  A response that is not *)
(* 2xx becomes an error with the response's status; a failed fetch becomes *)
(* an error with status 0.  The JSON body of a 2xx response is parsed by   *)
(* the promise request() returns, outside its try: when the body is not    *)
(* JSON the caller gets the SyntaxError of the parser, which has no status *)
(* and no isNetworkError.                                                  *)
(***************************************************************************)
\* A body with content-type application/json whose text is not JSON.
Malformed == [kind |-> "malformed"]

\* error.status of an error that has no status property: equal to no
\* status of HTTP and not to 0.
NoStatus == -1

NetworkError ==
    [ok |-> FALSE, hasStatus |-> TRUE, status |-> 0, isNetworkError |-> TRUE,
     message |-> "Network error. Please check your connection.", data |-> Null]

request(response, fetchFailed) ==
    IF fetchFailed
    THEN NetworkError
    ELSE IF response.status \in 200..299
    THEN IF response.status = 204
         THEN [ok |-> TRUE, hasStatus |-> TRUE, status |-> 204, isNetworkError |-> FALSE,
               message |-> response.message, data |-> Undefined]
         ELSE IF response.body = Malformed
         THEN [ok |-> FALSE, hasStatus |-> FALSE, status |-> NoStatus,
               isNetworkError |-> FALSE, message |-> "Unexpected token", data |-> Null]
         ELSE [ok |-> TRUE, hasStatus |-> TRUE, status |-> response.status,
               isNetworkError |-> FALSE, message |-> response.message,
               data |-> response.body]
    ELSE [ok |-> FALSE, hasStatus |-> TRUE, status |-> response.status,
          isNetworkError |-> FALSE, message |-> response.message,
          data |-> IF response.body = Malformed THEN Null ELSE response.body]

(***************************************************************************)
(* The reservation hooks (useReservations.tsx).                            *)
(***************************************************************************)
\* isValidReservation(reservation)
isValidReservation(r) ==
    /\ r.kind = "reservation"
    /\ ~getTime(r.expiresAt).nan
    /\ (r.reservedAt # EmptyString => ~getTime(r.reservedAt).nan)

\* An isReservationExpired whose comparison is turned around.
isReservationExpiredReversed(expiresAt) ==
    IF expiresAt = EmptyString THEN TRUE
    ELSE LET expiryTime == getTime(expiresAt)
         IN  IF expiryTime.nan THEN TRUE ELSE expiryTime.v > now

\* isReservationExpired(expiresAt)
isReservationExpired(expiresAt) ==
    IF expiresAt = EmptyString THEN TRUE
    ELSE LET expiryTime == getTime(expiresAt)
         IN  IF expiryTime.nan THEN TRUE ELSE expiryTime.v < now

\* getTimeRemaining(expiresAt)
getTimeRemaining(expiresAt) ==
    IF expiresAt = EmptyString THEN 0
    ELSE LET expiryTime == getTime(expiresAt)
         IN  IF expiryTime.nan THEN 0
             ELSE IF expiryTime.v - now > 0 THEN expiryTime.v - now ELSE 0

\* String.prototype.toUpperCase, on the status strings.
toUpperCase(s) ==
    CASE s = "active" -> "ACTIVE"
      [] s = "expired" -> "EXPIRED"
      [] s = "cancelled" -> "CANCELLED"
      [] OTHER -> s

\* isReservationActive(reservation)
isReservationActive(r) ==
    IF r = Null \/ r.status = "" \/ r.expiresAt = EmptyString THEN FALSE
    ELSE toUpperCase(r.status) = "ACTIVE" /\ ~isReservationExpired(r.expiresAt)

\* The queries that invalidateQueries({queryKey: ['reservations']}) and
\* invalidateQueries({queryKey: ['products']}) mark stale.
ReservationQueries == {"reservations.my", "reservations.product", "reservations.id"}
ProductQueries == {"products"}

\* A mutationFn that checks the product id only.
createMutationFnAnyDuration(data) ==
    IF data.productId = <<>> \/ ~isValidObjectId(data.productId)
    THEN "Invalid product ID"
    ELSE ""

\* useCreateReservation, mutationFn: what it throws, "" when it sends the request.
createMutationFn(data) ==
    IF data.productId = <<>> \/ ~isValidObjectId(data.productId)
    THEN "Invalid product ID"
    ELSE IF data.durationMinutes = 0 \/ data.durationMinutes \notin {30, 60, 120, 1440}
    THEN "Invalid duration. Must be 30, 60, 120, or 1440 minutes"
    ELSE ""

\* useCreateReservation, onSuccess: the queries it invalidates.
createOnSuccess == ReservationQueries \cup ProductQueries

\* useCancelReservation, mutationFn: what it throws, "" when it sends the request.
cancelMutationFn(reservationId) ==
    IF reservationId = <<>> \/ ~isValidObjectId(reservationId)
    THEN "Invalid reservation ID"
    ELSE ""

\* useCancelReservation, onSuccess: the queries it invalidates.
cancelOnSuccess == ReservationQueries \cup ProductQueries

\* Invalidation in onSettled: it runs for a result and for an error.
InvalidatedOnSettled(result, onSuccess) == onSuccess

\* What a settled mutation invalidates: onSuccess runs only for a result.
Invalidated(result, onSuccess) == IF result.ok THEN onSuccess ELSE {}

\* useProductReservation, enabled
productReservationEnabled(productId) ==
    productId # <<>> /\ isValidObjectId(productId)

\* A queryFn that yields the body of whatever answer it gets.
productReservationQueryFnAnyBody(result) == result.data

\* useProductReservation, queryFn: the data it yields for the request's outcome.
productReservationQueryFn(result) ==
    IF result.ok THEN result.data ELSE Null

\* useMyReservations, queryFn
myReservationsQueryFn(result) ==
    IF result.ok /\ result.data.kind = "list"
    THEN SelectSeq(result.data.reservations, isValidReservation)
    ELSE <<>>

\* useReservation, enabled
reservationEnabled(reservationId) ==
    reservationId # <<>> /\ isValidObjectId(reservationId)

\* useReservation, queryFn
reservationQueryFn(result) ==
    IF result.ok /\ isValidReservation(result.data) THEN result.data ELSE Null

\* toast.success(title, {description}) and toast.error(title, {description})
Toast(kind, title, description) ==
    [kind |-> kind, title |-> title, description |-> description]

NoToast == Toast("none", "", "")

\* handleReserve: the toast for the outcome of createReservation.mutateAsync.
reserveToast(result) ==
    IF ~result.ok
    THEN Toast("error", "Reservation failed", result.message)
    ELSE IF result.data.kind # "created" \/ result.data.reservation.expiresAt = EmptyString
    THEN Toast("error", "Reservation failed", "Invalid response from server")
    ELSE IF getTime(result.data.reservation.expiresAt).nan
    THEN Toast("error", "Reservation failed", "Invalid expiration date received")
    ELSE Toast("success", "Product reserved!", "Product is reserved until its expiry")

\* handleCancelReservation: the toast for the outcome of
\* cancelReservation.mutateAsync.
cancelToast(result) ==
    IF result.ok
    THEN Toast("success", "Reservation cancelled",
               "The product is now available for others to purchase.")
    ELSE Toast("error", "Cancellation failed", result.message)

\* A request as the server sees it.
Request(method, path, id, durationMinutes) ==
    [method |-> method, path |-> path, id |-> id, durationMinutes |-> durationMinutes]

NoRequest == Request("", "", <<>>, 0)

(***************************************************************************)
(* Inputs.                                                                 *)
(***************************************************************************)
\* Product ids a request may carry: the route parameter is free text.
ProductIdInputs == Products \cup {UnknownId} \cup MalformedIds

\* Durations handed to useCreateReservation: the four options, and values
\* outside the ReservationDuration type.
DurationInputs == DURATION_OPTIONS \cup {0, 45}

\* Reservation ids a request may carry.
ReservationIdInputs ==
    {LeaseId(i) : i \in 1..MaxLeases} \cup {UnknownId} \cup MalformedIds

(***************************************************************************)
(* The lease manager under the requests of its clients.  Every request     *)
(* passes through the client's mutation function before it is sent; the    *)
(* server handles one request at a time per lease (section 5), so requests *)
(* in flight at the same time are handled in either order.                 *)
(***************************************************************************)
\* A principal's useCreateReservation request and the server's handling of it.
Creates(userId, productId, durationMinutes) ==
    LET data == [productId |-> productId, durationMinutes |-> durationMinutes]
        served == createLease(leases, productId, userId, durationMinutes)
    IN  /\ createMutationFn(data) = ""
        /\ Len(served.leases) <= MaxLeases
        /\ leases' = served.leases
        /\ UNCHANGED <<now, sweepPending, clientVars, sessionVars, pageVars>>

\* A principal's useCancelReservation request and the server's handling of it.
Cancels(userId, reservationId) ==
    LET served == cancelLease(leases, reservationId, userId)
    IN  /\ cancelMutationFn(reservationId) = ""
        /\ leases' = served.leases
        /\ UNCHANGED <<now, sweepPending, clientVars, sessionVars, pageVars>>

\* The expiry sweep reads the leases that are ACTIVE and due.
SweepReads ==
    /\ sweepPending = {}
    /\ sweepPending' = {i \in LeaseIndexes : leases[i].status = "ACTIVE" /\ IsDue(leases[i])}
    /\ sweepPending' # {}
    /\ UNCHANGED <<now, leases, clientVars, sessionVars, pageVars>>

\* The expiry sweep writes one of the transitions it decided on.
SweepWrites(i) ==
    /\ i \in sweepPending
    /\ leases' = Transition(leases, i, "EXPIRED")
    /\ sweepPending' = sweepPending \ {i}
    /\ UNCHANGED <<now, clientVars, sessionVars, pageVars>>

\* Time passes.  The clock moves to the expiry of an ACTIVE lease or to the
\* millisecond after it.
Instants ==
    UNION {{leases[i].expiresAt, leases[i].expiresAt + 1} :
             i \in {j \in LeaseIndexes : leases[j].status = "ACTIVE"}}

Tick(t) ==
    /\ t > now
    /\ now' = t
    /\ UNCHANGED <<leases, sweepPending, clientVars, sessionVars, pageVars>>

InitLeases ==
    /\ now = 0
    /\ leases = <<>>
    /\ sweepPending = {}

InitClient ==
    /\ myData = <<>>
    /\ productReservation = Undefined
    /\ reservation = Undefined
    /\ stale = {}
    /\ toast = NoToast
    /\ lastRequest = NoRequest

InitSessions ==
    /\ sessions = <<>>
    /\ location = [path |-> <<>>, initialMessage |-> ""]

\* No message is stored, nobody has joined; useMessages and useChats have
\* their initialData, the empty array.
InitChat ==
    /\ messages = <<>>
    /\ summaries = <<>>
    /\ lastPost = Null
    /\ room = {}
    /\ inbox = <<>>
    /\ messagesData = <<>>
    /\ chatsData = <<>>
    /\ pendingMessages = Undefined
    /\ pendingChats = Undefined

\* The chat window before its first effect: no socket, nothing typed.
InitSocket ==
    /\ socketStatus = "disconnected"
    /\ socket = FALSE
    /\ chatId = <<>>
    /\ emitted = <<>>
    /\ isTyping = FALSE
    /\ otherUserTyping = FALSE
    /\ typingSince = 0
    /\ transportDropped = FALSE
    /\ messageText = ""
    /\ typingTimeout = Null

InitApi ==
    /\ chat = Undefined
    /\ chatError = Null
    /\ chatFetch = Null

InitSell ==
    /\ imageFiles = <<>>
    /\ uploads = <<>>
    /\ selections = 0
    /\ listings = <<>>
    /\ productResponse = 0

\* The chats Me's routes name.
RouteChats == {SessionId(1), SessionId(2)}

InitView ==
    /\ card = Null
    /\ lastInputAt = 0
    /\ isExpired = FALSE
    /\ joinedChats = {}
    /\ messagesOf = [c \in RouteChats |-> <<>>]

\* Nothing has happened yet: the stores are empty, the caches have no data.
Init ==
    /\ InitLeases /\ InitClient /\ InitSessions /\ InitChat /\ InitSocket
    /\ InitApi /\ InitSell /\ InitView

NextLease ==
    \/ \E userId \in Users, productId \in ProductIdInputs, durationMinutes \in DurationInputs :
          Creates(userId, productId, durationMinutes)
    \/ \E userId \in Users, reservationId \in ReservationIdInputs :
          Cancels(userId, reservationId)
    \/ SweepReads
    \/ \E i \in sweepPending : SweepWrites(i)
    \/ \E t \in Instants : Tick(t)

SpecLease == Init /\ [][NextLease]_vars

(***************************************************************************)
(* The browser session of Me against a server it does not control: every   *)
(* request is answered by some response, or fails on the network.  A       *)
(* handler awaits its request; it is one step, from the call to the toast. *)
(***************************************************************************)
\* Ids the pages hand to the hooks: route parameters and props are free text.
PageProductIds == {ProductId(1)} \cup MalformedIds
PageReservationIds == {LeaseId(1)} \cup MalformedIds

\* A reservation as a response body carries it.
SampleReservation(status) ==
    ToJSON([key |-> 1, product |-> 1, holder |-> 1, reservedAt |-> 0,
            expiresAt |-> 30 * MsPerMinute, status |-> status, durationMinutes |-> 30])

UndatedReservation == [SampleReservation("ACTIVE") EXCEPT !.expiresAt = InvalidDateString]

InternalError == Response(500, "Internal server error", [kind |-> "error"])

\* Responses to POST /reservations.
CreateResponses ==
    {Response(201, "Reservation created",
              [kind |-> "created", reservation |-> SampleReservation("ACTIVE")]),
     Response(201, "Reservation created", Null),
     Response(409, "Product is already reserved",
              [kind |-> "conflict", existingLeaseId |-> LeaseId(1)])}

\* Responses to DELETE /reservations/:id.
CancelResponses ==
    {Response(200, "Reservation cancelled", Null),
     Response(409, "Reservation is not active", Null),
     Response(404, "Reservation not found", Null)}

\* Responses to GET /reservations/product/:productId.
ProductReservationResponses ==
    {Response(200, "", Null), InternalError}
    \cup {Response(200, "", SampleReservation(status)) :
              status \in {"ACTIVE", "EXPIRED", "CANCELLED"}}

\* Responses to GET /reservations/:id.
ReservationResponses ==
    {Response(200, "", SampleReservation("ACTIVE")),
     Response(200, "", UndatedReservation),
     Response(404, "Reservation not found", Null)}

\* Responses to GET /reservations/my.
MyReservationsResponses ==
    {Response(200, "", [kind |-> "list", reservations |-> <<>>]),
     Response(200, "", [kind |-> "list",
                        reservations |-> <<SampleReservation("ACTIVE"), UndatedReservation>>]),
     InternalError}

\* What a handler or a query does with one answer of the server: the request
\* it sends (NoRequest when it sends none), the queries it invalidates, the
\* toast it shows, the data it yields.

\* ReservationModal.handleReserve, with useCreateReservation.  The user is
\* signed in.
handleReserve(productId, selectedDuration, response, fetchFailed) ==
    LET data == [productId |-> productId, durationMinutes |-> selectedDuration]
        thrown == createMutationFn(data)
        result == request(response, fetchFailed)
    IN  IF productId = <<>>
        THEN [request |-> NoRequest, invalidated |-> {},
              toast |-> Toast("error", "Invalid product", "Product ID is missing or invalid.")]
        ELSE IF thrown # ""
        THEN [request |-> NoRequest, invalidated |-> {},
              toast |-> Toast("error", "Reservation failed", thrown)]
        ELSE [request |-> Request("POST", "/reservations", productId, selectedDuration),
              invalidated |-> Invalidated(result, createOnSuccess),
              toast |-> reserveToast(result)]

\* MyReservations.handleCancelReservation, with useCancelReservation.
handleCancelReservation(reservationId, response, fetchFailed) ==
    LET thrown == cancelMutationFn(reservationId)
        result == request(response, fetchFailed)
    IN  IF thrown # ""
        THEN [request |-> NoRequest, invalidated |-> {},
              toast |-> Toast("error", "Cancellation failed", thrown)]
        ELSE [request |-> Request("DELETE", "/reservations/:id", reservationId, 0),
              invalidated |-> Invalidated(result, cancelOnSuccess),
              toast |-> cancelToast(result)]

\* useMyReservations
useMyReservations(response, fetchFailed) ==
    [request |-> Request("GET", "/reservations/my", <<>>, 0),
     data |-> myReservationsQueryFn(request(response, fetchFailed))]

\* MyReservations: the three lists the page shows, filtered from the data
\* of useMyReservations at the time of the render.
MyReservations(reservations) ==
    [activeReservations |-> SelectSeq(reservations, isReservationActive),
     expiredReservations |->
         SelectSeq(reservations, LAMBDA r : toUpperCase(r.status) = "EXPIRED"),
     cancelledReservations |->
         SelectSeq(reservations, LAMBDA r : toUpperCase(r.status) = "CANCELLED")]

\* useProductReservation(productId): it fetches when it is enabled, and has
\* no data when it is not.
useProductReservation(productId, response, fetchFailed) ==
    IF productReservationEnabled(productId)
    THEN [request |-> Request("GET", "/reservations/product/:productId", productId, 0),
          data |-> productReservationQueryFn(request(response, fetchFailed))]
    ELSE [request |-> NoRequest, data |-> Undefined]

\* useReservation(reservationId)
useReservation(reservationId, response, fetchFailed) ==
    IF reservationEnabled(reservationId)
    THEN [request |-> Request("GET", "/reservations/:id", reservationId, 0),
          data |-> reservationQueryFn(request(response, fetchFailed))]
    ELSE [request |-> NoRequest, data |-> Undefined]

\* The last request after a handler or query that sent this one.
Sent(req) == IF req = NoRequest THEN lastRequest ELSE req

\* The queries still stale after a query that sent this request has fetched.
Fetched(req, query) == IF req = NoRequest THEN stale ELSE stale \ {query}

\* What the handlers and the queries can do, over the ids and durations of
\* the pages and the answers of the server.
ReserveOutcomes ==
    {handleReserve(productId, selectedDuration, response, fetchFailed) :
        productId \in PageProductIds, selectedDuration \in DurationInputs,
        response \in CreateResponses, fetchFailed \in BOOLEAN}

CancelReservationOutcomes ==
    {handleCancelReservation(reservationId, response, fetchFailed) :
        reservationId \in PageReservationIds, response \in CancelResponses,
        fetchFailed \in BOOLEAN}

MyReservationsOutcomes ==
    {useMyReservations(response, fetchFailed) :
        response \in MyReservationsResponses, fetchFailed \in BOOLEAN}

ProductReservationOutcomes ==
    {useProductReservation(productId, response, fetchFailed) :
        productId \in PageProductIds, response \in ProductReservationResponses,
        fetchFailed \in BOOLEAN}

ReservationOutcomes ==
    {useReservation(reservationId, response, fetchFailed) :
        reservationId \in PageReservationIds, response \in ReservationResponses,
        fetchFailed \in BOOLEAN}

\* The user reserves a product.
Reserve(outcome) ==
    /\ lastRequest' = Sent(outcome.request)
    /\ stale' = stale \cup outcome.invalidated
    /\ toast' = outcome.toast
    /\ UNCHANGED <<myData, productReservation, reservation, leaseVars, sessionVars, pageVars>>

\* The user cancels a reservation.
CancelReservation(outcome) ==
    /\ lastRequest' = Sent(outcome.request)
    /\ stale' = stale \cup outcome.invalidated
    /\ toast' = outcome.toast
    /\ UNCHANGED <<myData, productReservation, reservation, leaseVars, sessionVars, pageVars>>

\* The reservations page is mounted, or its query refetches.
FetchMyReservations(outcome) ==
    /\ lastRequest' = Sent(outcome.request)
    /\ myData' = outcome.data
    /\ stale' = Fetched(outcome.request, "reservations.my")
    /\ UNCHANGED <<productReservation, reservation, toast, leaseVars, sessionVars, pageVars>>

\* A product's reservation query is mounted, or refetches.
FetchProductReservation(outcome) ==
    /\ lastRequest' = Sent(outcome.request)
    /\ productReservation' = outcome.data
    /\ stale' = Fetched(outcome.request, "reservations.product")
    /\ UNCHANGED <<myData, reservation, toast, leaseVars, sessionVars, pageVars>>

\* A reservation's query is mounted, or refetches.
FetchReservation(outcome) ==
    /\ lastRequest' = Sent(outcome.request)
    /\ reservation' = outcome.data
    /\ stale' = Fetched(outcome.request, "reservations.id")
    /\ UNCHANGED <<myData, productReservation, toast, leaseVars, sessionVars, pageVars>>

NextClient ==
    \/ \E outcome \in ReserveOutcomes : Reserve(outcome)
    \/ \E outcome \in CancelReservationOutcomes : CancelReservation(outcome)
    \/ \E outcome \in MyReservationsOutcomes : FetchMyReservations(outcome)
    \/ \E outcome \in ProductReservationOutcomes : FetchProductReservation(outcome)
    \/ \E outcome \in ReservationOutcomes : FetchReservation(outcome)

SpecClient == Init /\ [][NextClient]_vars

(***************************************************************************)
(* The session manager (server), modelled from the specification, sections *)
(* 3 and 4.2, and the contact-seller dialog of the client.                 *)
(***************************************************************************)
\* No product: the optional product reference is absent.
NoProduct == <<>>

\* The retention window of a session: 7 days, in milliseconds.
RetentionMs == 7 * 24 * 60 * MsPerMinute

\* A key that keeps the order of the participants.
SameKeyOrdered(s, initiatorId, counterpartyId, productId) ==
    /\ s.initiator = initiatorId
    /\ s.counterparty = counterpartyId
    /\ s.product = productId

\* The uniqueness key of a session: the unordered pair of participants and
\* the optional product.
SameKey(s, initiatorId, counterpartyId, productId) ==
    /\ {s.initiator, s.counterparty} = {initiatorId, counterpartyId}
    /\ s.product = productId

\* createOrGetSession(initiatorId, counterpartyId, productId?) on the store
\* ss: the store after the call, the session, and whether it was created.
createOrGetSession(ss, initiatorId, counterpartyId, productId) ==
    LET existing == {i \in 1..Len(ss) :
                        SameKey(ss[i], initiatorId, counterpartyId, productId)}
        new == [_id |-> SessionId(Len(ss) + 1), initiator |-> initiatorId,
                counterparty |-> counterpartyId, product |-> productId,
                createdAt |-> now, expiresAt |-> now + RetentionMs]
    IN  IF initiatorId = counterpartyId
        THEN [sessions |-> ss, rejected |-> TRUE, created |-> FALSE, session |-> Null]
        ELSE IF existing # {}
        THEN [sessions |-> ss, rejected |-> FALSE, created |-> FALSE,
              session |-> ss[CHOOSE i \in existing : TRUE]]
        ELSE [sessions |-> Append(ss, new), rejected |-> FALSE, created |-> TRUE,
              session |-> new]

\* A session as it travels in a response body.
ChatJSON(s) ==
    [kind |-> "chat", _id |-> s._id, participants |-> <<s.initiator, s.counterparty>>,
     productId |-> s.product, createdAt |-> toISOString(s.createdAt),
     expiresAt |-> toISOString(s.expiresAt)]

\* The ways the facade tells a pre-existing session from a created one: a
\* 200 with the session, or a 409 that names it.
ExistingSignals == {"ok", "conflict"}

\* POST /chats {sellerId, productId}
postChat(ss, requesterId, data, signal) ==
    LET served == createOrGetSession(ss, requesterId, data.sellerId, data.productId)
    IN  [sessions |-> served.sessions,
         response |->
            IF served.rejected
            THEN Response(400, "Cannot start a chat with yourself", Null)
            ELSE IF served.created
            THEN Response(201, "", ChatJSON(served.session))
            ELSE IF signal = "conflict"
            THEN Response(409, "Chat already exists",
                          [kind |-> "conflict", chatId |-> served.session._id])
            ELSE Response(200, "", ChatJSON(served.session))]

\* String.prototype.trim, on the messages of the dialog.
Messages == {"", "  ", "hi", " hi "}

trim(message) ==
    CASE message = "  " -> ""
      [] message = " hi " -> "hi"
      [] OTHER -> message

\* navigate(`/chat/${chatId}`, {state: {initialMessage}})
ChatRoute(id, initialMessage) == [path |-> id, initialMessage |-> initialMessage]

NoNavigation == [path |-> <<>>, initialMessage |-> ""]

\* useCreateChat, onSuccess: the queries it invalidates.
createChatOnSuccess == {"chats"}

\* ContactSellerButton.handleSendMessage, with useCreateChat: the request
\* it sends, the queries it invalidates, the toast it shows, the route it
\* navigates to (NoNavigation when it stays).
handleSendMessage(message, sellerId, productId, response, fetchFailed) ==
    LET result == request(response, fetchFailed)
        sent == Request("POST", "/chats", sellerId, 0)
    IN  IF trim(message) = ""
        THEN [request |-> NoRequest, invalidated |-> {},
              toast |-> Toast("error", "Please enter a message", ""),
              navigate |-> NoNavigation]
        ELSE IF result.ok
        THEN [request |-> sent, invalidated |-> Invalidated(result, createChatOnSuccess),
              toast |-> Toast("success", "Chat created!", "You can now message the seller"),
              navigate |-> ChatRoute(result.data._id, trim(message))]
        ELSE IF result.status = 409 /\ result.data # Null /\ result.data.chatId # <<>>
        THEN [request |-> sent, invalidated |-> {}, toast |-> toast,
              navigate |-> ChatRoute(result.data.chatId, trim(message))]
        ELSE [request |-> sent, invalidated |-> {},
              toast |-> Toast("error", "Failed to contact seller", result.message),
              navigate |-> NoNavigation]

\* Sellers and products of the pages the contact button is on.
Sellers == Users
ContactProducts == Products \cup {NoProduct}

\* Me sends the first message of the contact dialog.  A request whose fetch
\* fails does not reach the server.
ContactSeller(sellerId, productId, message, signal, fetchFailed) ==
    LET data == [sellerId |-> sellerId, productId |-> productId]
        served == postChat(sessions, Me, data, signal)
        outcome == handleSendMessage(message, sellerId, productId,
                                     served.response, fetchFailed)
    IN  /\ Len(served.sessions) <= MaxSessions
        /\ sessions' = IF outcome.request = NoRequest \/ fetchFailed
                       THEN sessions ELSE served.sessions
        /\ lastRequest' = Sent(outcome.request)
        /\ stale' = stale \cup outcome.invalidated
        /\ toast' = outcome.toast
        /\ location' = IF outcome.navigate = NoNavigation THEN location
                       ELSE outcome.navigate
        /\ UNCHANGED <<myData, productReservation, reservation, leaseVars, pageVars>>

\* Another principal asks for a session.
Contacts(userId, counterpartyId, productId) ==
    LET served == createOrGetSession(sessions, userId, counterpartyId, productId)
    IN  /\ Len(served.sessions) <= MaxSessions
        /\ sessions' = served.sessions
        /\ UNCHANGED <<location, clientVars, leaseVars, pageVars>>

NextSession ==
    \/ \E sellerId \in Sellers, productId \in ContactProducts, message \in Messages,
             signal \in ExistingSignals, fetchFailed \in BOOLEAN :
          ContactSeller(sellerId, productId, message, signal, fetchFailed)
    \/ \E counterpartyId \in Users, productId \in ContactProducts :
          Contacts(Other, counterpartyId, productId)

SpecSession == Init /\ [][NextSession]_vars

(***************************************************************************)
(* Messages (server).  postMessage, markRead and the reads of the session  *)
(* manager, and the fan-out of the presence and delivery hub, modelled     *)
(* from the specification, sections 3, 4.2, 4.3 and 5.                     *)
(***************************************************************************)
\* The id the server gives to its n-th message.
MessageIds == [n \in 1..Len(Digits) |-> Oid("d", n)]
MessageId(n) == MessageIds[n]

IndexOfSession(ss, sessionId) ==
    IF \E i \in 1..Len(ss) : ss[i]._id = sessionId
    THEN CHOOSE i \in 1..Len(ss) : ss[i]._id = sessionId
    ELSE 0

Participants(s) == {s.initiator, s.counterparty}

\* The retention window of the session has elapsed.
RetentionElapsed(s) == now > s.expiresAt

\* A message as it travels in a response body or in a receive_message event.
MessageJSON(m) ==
    [kind |-> "message", _id |-> MessageId(m.key), chatId |-> m.chat,
     senderId |-> m.senderId, receiverId |-> m.receiverId, message |-> m.message,
     createdAt |-> toISOString(m.createdAt)]

\* The summary of a session that has no message yet.
NoSummary == [lastMessage |-> "", lastMessageAt |-> EmptyString, unread |-> [u \in Users |-> 0]]

SummaryOf(sm, sessionId) == IF sessionId \in DOMAIN sm THEN sm[sessionId] ELSE NoSummary

\* postMessage(sessionId, senderId, body) on the stores ss, ms and sm: the
\* stores after the call and the answer.  The message, the last-message
\* fields and the receiver's unread counter are written in one step.
postMessage(ss, ms, sm, sessionId, senderId, body) ==
    LET i == IndexOfSession(ss, sessionId)
        unchanged == [messages |-> ms, summaries |-> sm]
    IN  IF i = 0
        THEN unchanged @@ [response |-> Response(404, "Chat not found", Null)]
        ELSE IF senderId \notin Participants(ss[i])
        THEN unchanged @@ [response |-> Response(403, "Not a participant", Null)]
        ELSE IF trim(body) = ""
        THEN unchanged @@ [response |-> Response(400, "Message is empty", Null)]
        ELSE IF RetentionElapsed(ss[i])
        THEN unchanged @@ [response |-> Response(410, "Chat has expired", Null)]
        ELSE LET receiverId == CHOOSE u \in Participants(ss[i]) : u # senderId
                 m == [key |-> Len(ms) + 1, chat |-> sessionId, senderId |-> senderId,
                       receiverId |-> receiverId, message |-> body, createdAt |-> now]
                 before == SummaryOf(sm, sessionId)
                 after == [lastMessage |-> body, lastMessageAt |-> toISOString(now),
                           unread |-> [before.unread EXCEPT ![receiverId] = @ + 1]]
             IN  [messages |-> Append(ms, m),
                  summaries |-> (sessionId :> after) @@ sm,
                  response |-> Response(201, "", MessageJSON(m))]

\* markRead(sessionId, readerId): the reader's unread counter is reset.
markRead(sm, sessionId, readerId) ==
    IF sessionId \in DOMAIN sm
    THEN [sm EXCEPT ![sessionId].unread[readerId] = 0]
    ELSE sm

\* The message log of a session, as the history read returns it.
getMessages(ms, sessionId) ==
    LET log == SelectSeq(ms, LAMBDA m : m.chat = sessionId)
    IN  [k \in 1..Len(log) |-> MessageJSON(log[k])]

\* listSessions(userId): the sessions of the user, each with its summary and
\* the caller's unread counter.
listSessions(ss, sm, userId) ==
    LET mine == SelectSeq(ss, LAMBDA x : userId \in Participants(x))
    IN  [k \in 1..Len(mine) |->
            ChatJSON(mine[k]) @@
            [lastMessage |-> SummaryOf(sm, mine[k]._id).lastMessage,
             lastMessageAt |-> SummaryOf(sm, mine[k]._id).lastMessageAt,
             unreadCount |-> SummaryOf(sm, mine[k]._id).unread[userId]]]

\* publishMessage: the events the hub sends to Me's socket once postMessage
\* has accepted a message; the sender gets none, a member that has not
\* joined gets none.
publishMessage(joined, response, senderId) ==
    IF response.status = 201 /\ Me \in joined /\ senderId # Me
    THEN <<response.body>>
    ELSE <<>>

(***************************************************************************)
(* The chat hooks (useChat.tsx).                                           *)
(***************************************************************************)
\* An isChatExpired that counts the instant of expiry as expired.
isChatExpiredAtExpiry(expiresAt) ==
    IF expiresAt = EmptyString THEN FALSE
    ELSE LET expiryTime == getTime(expiresAt)
         IN  IF expiryTime.nan THEN FALSE ELSE expiryTime.v <= now

\* isChatExpired(expiresAt)
isChatExpired(expiresAt) ==
    IF expiresAt = EmptyString THEN FALSE
    ELSE LET expiryTime == getTime(expiresAt)
         IN  IF expiryTime.nan THEN FALSE ELSE expiryTime.v < now

\* The bodies of the messages that are posted.
Bodies == {"hi", "  "}

\* The chat that Me's chat window is open on.
OpenChat == SessionId(1)

\* A participant posts a message to a session; the hub fans it out.
Posts(senderId, sessionId, body) ==
    LET served == postMessage(sessions, messages, summaries, sessionId, senderId, body)
    IN  /\ Len(served.messages) <= MaxMessages
        /\ messages' = served.messages
        /\ summaries' = served.summaries
        /\ lastPost' = served.response
        /\ inbox' = inbox \o publishMessage(room, served.response, senderId)
        /\ UNCHANGED <<room, messagesData, chatsData, pendingMessages, pendingChats>>
        /\ UNCHANGED <<leaseVars, clientVars, sessionVars, socketVars, apiVars, sellVars,
                   viewVars>>

\* The instants around the end of a retention window: one second before
\* it, its last instant, and the first instant after it.
RetentionInstants ==
    UNION {{s.expiresAt - 1000, s.expiresAt, s.expiresAt + 1} :
              s \in {sessions[i] : i \in 1..Len(sessions)}}

\* Time passes, up to an instant of interest.
Passes(t) ==
    /\ t > now
    /\ now' = t
    /\ UNCHANGED <<leases, sweepPending, clientVars, sessionVars, pageVars>>

\* The contexts of the sessions that are opened: a product, or none.
ChatProducts == {ProductId(1), NoProduct}

NextRetention ==
    \/ \E userId \in Users, productId \in ChatProducts :
          Contacts(userId, Me, productId)
    \/ \E senderId \in Users, i \in 1..Len(sessions), body \in Bodies :
          Posts(senderId, sessions[i]._id, body)
    \/ \E t \in RetentionInstants : Passes(t)

SpecRetention == Init /\ [][NextRetention]_vars

(***************************************************************************)
(* The chat window of Me, open on one chat: the cached message list, the   *)
(* cached chat list, the receive_message events of the socket and the      *)
(* fetches, against the session manager and the hub.                       *)
(***************************************************************************)
\* The formats of a list in a response body: the array itself, or an object
\* that holds the array under a property.
ListFormats == {"array", "object"}

\* GET /chats/:chatId/messages
getMessagesResponse(ss, ms, sessionId, requesterId) ==
    LET i == IndexOfSession(ss, sessionId)
    IN  IF i = 0 THEN Response(404, "Chat not found", Null)
        ELSE IF requesterId \notin Participants(ss[i])
        THEN Response(403, "Not a participant", Null)
        ELSE Response(200, "", [kind |-> "array", items |-> getMessages(ms, sessionId)])

\* GET /chats
getChatsResponse(ss, sm, userId) ==
    Response(200, "", [kind |-> "array", items |-> listSessions(ss, sm, userId)])

\* The response with its list in the given format.
Formatted(response, format, property) ==
    IF response.body # Null /\ format = "object"
    THEN [response EXCEPT !.body.kind = property]
    ELSE response

\* useMessages, queryFn: the data of the query after the fetch; a failed
\* fetch leaves the data as it was.
useMessages(old, response, fetchFailed) ==
    LET result == request(response, fetchFailed)
    IN  IF ~result.ok THEN old
        ELSE IF result.data # Null /\ result.data.kind \in {"array", "messages"}
        THEN result.data.items
        ELSE <<>>

\* useChats, queryFn
useChats(old, response, fetchFailed) ==
    LET result == request(response, fetchFailed)
    IN  IF ~result.ok THEN old
        ELSE IF result.data # Null /\ result.data.kind \in {"array", "chats"}
        THEN result.data.items
        ELSE <<>>

\* The data of a query that has fetched, or has initialData.
Data(items) == [kind |-> "data", items |-> items]

\* A handleReceiveMessage that puts the message first.
handleReceiveMessageFirst(old, message) ==
    IF old = Undefined THEN <<message>>
    ELSE IF \E k \in 1..Len(old.items) : old.items[k]._id = message._id THEN old.items
    ELSE <<message>> \o old.items

\* A handleReceiveMessage that does not look for the message in the list.
handleReceiveMessageAlways(old, message) ==
    IF old = Undefined THEN <<message>>
    ELSE Append(old.items, message)

\* useChatSocket, handleReceiveMessage: the cached message list after the
\* event.
handleReceiveMessage(old, message) ==
    IF old = Undefined THEN <<message>>
    ELSE IF \E k \in 1..Len(old.items) : old.items[k]._id = message._id THEN old.items
    ELSE Append(old.items, message)

\* useSendMessage, onSuccess: the queries it invalidates.
sendMessageOnSuccess == {"messages", "chats"}

\* Me's socket joins the room of the open chat (join_chat).
JoinsRoom ==
    /\ IndexOfSession(sessions, OpenChat) # 0
    /\ Me \in Participants(sessions[IndexOfSession(sessions, OpenChat)])
    /\ Me \notin room
    /\ room' = room \cup {Me}
    /\ UNCHANGED <<messages, summaries, lastPost, inbox, messagesData, chatsData,
                   pendingMessages, pendingChats>>
    /\ UNCHANGED <<leaseVars, clientVars, sessionVars, socketVars, apiVars, sellVars,
                   viewVars>>

\* The transport drops: Me is no member of the room any more, and the
\* events on their way are lost.
Drops ==
    /\ Me \in room
    /\ room' = room \ {Me}
    /\ inbox' = <<>>
    /\ UNCHANGED <<messages, summaries, lastPost, messagesData, chatsData,
                   pendingMessages, pendingChats>>
    /\ UNCHANGED <<leaseVars, clientVars, sessionVars, socketVars, apiVars, sellVars,
                   viewVars>>

\* A receive_message event arrives: handleReceiveMessage writes the cached
\* message list and invalidates the chat list.
Receives ==
    /\ inbox # <<>>
    /\ messagesData' = handleReceiveMessage(Data(messagesData), Head(inbox))
    /\ inbox' = Tail(inbox)
    /\ stale' = stale \cup {"chats"}
    /\ UNCHANGED <<messages, summaries, lastPost, room, chatsData,
                   pendingMessages, pendingChats>>
    /\ UNCHANGED <<myData, productReservation, reservation, toast, lastRequest>>
    /\ UNCHANGED <<leaseVars, sessionVars, socketVars, apiVars, sellVars,
                   viewVars>>

\* useMessages fetches: the server reads the log and answers.
FetchMessages ==
    /\ pendingMessages = Undefined
    /\ pendingMessages' = getMessagesResponse(sessions, messages, OpenChat, Me)
    /\ UNCHANGED <<messages, summaries, lastPost, room, inbox, messagesData, chatsData,
                   pendingChats>>
    /\ UNCHANGED <<leaseVars, clientVars, sessionVars, socketVars, apiVars, sellVars,
                   viewVars>>

\* The answer arrives, or the fetch fails.
MessagesArrive(format, fetchFailed) ==
    /\ pendingMessages # Undefined
    /\ messagesData' = useMessages(messagesData,
                                   Formatted(pendingMessages, format, "messages"),
                                   fetchFailed)
    /\ pendingMessages' = Undefined
    /\ stale' = stale \ {"messages"}
    /\ UNCHANGED <<messages, summaries, lastPost, room, inbox, chatsData, pendingChats>>
    /\ UNCHANGED <<myData, productReservation, reservation, toast, lastRequest>>
    /\ UNCHANGED <<leaseVars, sessionVars, socketVars, apiVars, sellVars,
                   viewVars>>

\* useChats fetches: the server reads the sessions of Me and answers.
FetchChats ==
    /\ pendingChats = Undefined
    /\ pendingChats' = getChatsResponse(sessions, summaries, Me)
    /\ UNCHANGED <<messages, summaries, lastPost, room, inbox, messagesData, chatsData,
                   pendingMessages>>
    /\ UNCHANGED <<leaseVars, clientVars, sessionVars, socketVars, apiVars, sellVars,
                   viewVars>>

ChatsArrive(format, fetchFailed) ==
    /\ pendingChats # Undefined
    /\ chatsData' = useChats(chatsData, Formatted(pendingChats, format, "chats"),
                             fetchFailed)
    /\ pendingChats' = Undefined
    /\ stale' = stale \ {"chats"}
    /\ UNCHANGED <<messages, summaries, lastPost, room, inbox, messagesData,
                   pendingMessages>>
    /\ UNCHANGED <<myData, productReservation, reservation, toast, lastRequest>>
    /\ UNCHANGED <<leaseVars, sessionVars, socketVars, apiVars, sellVars,
                   viewVars>>

\* Me sends a message with useSendMessage, the request of the API: the
\* server stores it, and onSuccess invalidates the messages and the chats.
SendsMessage(body, fetchFailed) ==
    LET served == postMessage(sessions, messages, summaries, OpenChat, Me, body)
        result == request(served.response, fetchFailed)
    IN  /\ ~fetchFailed
        /\ Len(served.messages) <= MaxMessages
        /\ messages' = served.messages
        /\ summaries' = served.summaries
        /\ lastPost' = served.response
        /\ inbox' = inbox \o publishMessage(room, served.response, Me)
        /\ stale' = stale \cup Invalidated(result, sendMessageOnSuccess)
        /\ UNCHANGED <<room, messagesData, chatsData, pendingMessages, pendingChats>>
        /\ UNCHANGED <<myData, productReservation, reservation, toast, lastRequest>>
        /\ UNCHANGED <<leaseVars, sessionVars, socketVars, apiVars, sellVars,
                   viewVars>>

\* Me's chat window marks the chat as read (mark_read).
MarksRead ==
    /\ Me \in room
    /\ summaries' = markRead(summaries, OpenChat, Me)
    /\ UNCHANGED <<messages, lastPost, room, inbox, messagesData, chatsData,
                   pendingMessages, pendingChats>>
    /\ UNCHANGED <<leaseVars, clientVars, sessionVars, socketVars, apiVars, sellVars,
                   viewVars>>

NextChat ==
    \/ Contacts(Other, Me, ProductId(1))
    \/ \E senderId \in Users : Posts(senderId, OpenChat, "hi")
    \/ \E body \in Bodies, fetchFailed \in BOOLEAN : SendsMessage(body, fetchFailed)
    \/ JoinsRoom
    \/ Drops
    \/ Receives
    \/ MarksRead
    \/ FetchMessages
    \/ \E format \in ListFormats, fetchFailed \in BOOLEAN : MessagesArrive(format, fetchFailed)
    \/ FetchChats
    \/ \E format \in ListFormats, fetchFailed \in BOOLEAN : ChatsArrive(format, fetchFailed)

SpecChat == Init /\ [][NextChat]_vars

(***************************************************************************)
(* Sending on the socket.  The server takes a send_message as a            *)
(* postMessage of the sender followed by publishMessage, which fans the    *)
(* message out to the joined members except the sender.  No history is     *)
(* fetched here.                                                           *)
(***************************************************************************)
\* Me's window has joined the room and emits send_message; the server
\* takes it.
SendsOnSocket(body) ==
    /\ Me \in room
    /\ Posts(Me, OpenChat, body)

NextEcho ==
    \/ \E productId \in ChatProducts : Contacts(Other, Me, productId)
    \/ JoinsRoom
    \/ \E body \in Bodies : SendsOnSocket(body)
    \/ \E i \in 1..Len(sessions), body \in Bodies : Posts(Other, sessions[i]._id, body)
    \/ Receives
    \/ \E t \in RetentionInstants : Passes(t)

\* An event on its way is delivered.
SpecEcho == Init /\ [][NextEcho]_vars /\ WF_vars(Receives)

(***************************************************************************)
(* The socket of the chat window: useSocket, useChatSocket and the input   *)
(* handlers of ChatWindow.  A step is an event with the render and the     *)
(* effects that follow it.                                                 *)
(***************************************************************************)
\* The number of seconds the clock of the chat window runs.
MaxSeconds == 4

\* handleInputChange: stop typing after 2 seconds of inactivity.
TypingDebounceMs == 2000

\* socket.emit(name, {chatId, message})
Event(name, id, message) == [name |-> name, chatId |-> id, message |-> message]

\* useSocket: isConnected
isConnected == socketStatus = "connected"

\* The values a render of the chat window closes over.
Render == [socket |-> socket, chatId |-> chatId, isConnected |-> isConnected,
           isTyping |-> isTyping]

\* The first effect of useChatSocket when it runs for its dependencies
\* only on a change of the socket or of the chat.
joinChatEffectOnChat(before, after) ==
    IF <<before.socket, before.chatId>> = <<after.socket, after.chatId>>
    THEN <<>>
    ELSE (IF before.socket /\ before.chatId # <<>> /\ before.isConnected
          THEN <<Event("leave_chat", before.chatId, "")>> ELSE <<>>)
         \o
         (IF after.socket /\ after.chatId # <<>> /\ after.isConnected
          THEN <<Event("join_chat", after.chatId, "")>> ELSE <<>>)

\* A first effect that returns no cleanup.
joinChatEffectNoCleanup(before, after) ==
    IF <<before.socket, before.chatId, before.isConnected>>
         = <<after.socket, after.chatId, after.isConnected>>
    THEN <<>>
    ELSE IF after.socket /\ after.chatId # <<>> /\ after.isConnected
    THEN <<Event("join_chat", after.chatId, "")>>
    ELSE <<>>

\* useChatSocket, the first effect, with dependencies [socket, chatId,
\* isConnected]: the events its cleanup and its run emit when a render
\* changes the dependencies.
joinChatEffect(before, after) ==
    IF <<before.socket, before.chatId, before.isConnected>>
         = <<after.socket, after.chatId, after.isConnected>>
    THEN <<>>
    ELSE (IF before.socket /\ before.chatId # <<>> /\ before.isConnected
          THEN <<Event("leave_chat", before.chatId, "")>> ELSE <<>>)
         \o
         (IF after.socket /\ after.chatId # <<>> /\ after.isConnected
          THEN <<Event("join_chat", after.chatId, "")>> ELSE <<>>)

\* useChatSocket, markAsRead
markAsRead(r) ==
    IF ~r.socket \/ r.chatId = <<>> \/ ~r.isConnected THEN <<>>
    ELSE <<Event("mark_read", r.chatId, "")>>

\* ChatWindow, the effect that marks the chat as read, with dependencies
\* [chatId, isConnected, markAsRead].
markAsReadEffect(before, after) ==
    IF <<before.socket, before.chatId, before.isConnected>>
         = <<after.socket, after.chatId, after.isConnected>>
    THEN <<>>
    ELSE IF after.chatId # <<>> /\ after.isConnected THEN markAsRead(after)
    ELSE <<>>

\* The effects of a commit: the cleanups, then the effects, in the order of
\* the hooks.
Effects(before, after) == joinChatEffect(before, after) \o markAsReadEffect(before, after)

\* A sendMessage that does not look at the text.
sendMessageAnyText(r, message) ==
    IF ~r.socket \/ r.chatId = <<>> \/ ~r.isConnected THEN <<>>
    ELSE <<Event("send_message", r.chatId, trim(message))>>

\* useChatSocket, sendMessage
sendMessage(r, message) ==
    IF ~r.socket \/ r.chatId = <<>> \/ ~r.isConnected \/ trim(message) = "" THEN <<>>
    ELSE <<Event("send_message", r.chatId, trim(message))>>

\* useChatSocket, sendTyping: the events it emits and isTyping after it.
sendTyping(r) ==
    IF ~r.socket \/ r.chatId = <<>> \/ ~r.isConnected
    THEN [emitted |-> <<>>, isTyping |-> isTyping]
    ELSE IF ~r.isTyping
    THEN [emitted |-> <<Event("typing", r.chatId, "")>>, isTyping |-> TRUE]
    ELSE [emitted |-> <<>>, isTyping |-> isTyping]

\* useChatSocket, stopTyping
stopTyping(r) ==
    IF ~r.socket \/ r.chatId = <<>> \/ ~r.isConnected
    THEN [emitted |-> <<>>, isTyping |-> isTyping]
    ELSE IF r.isTyping
    THEN [emitted |-> <<Event("stop_typing", r.chatId, "")>>, isTyping |-> FALSE]
    ELSE [emitted |-> <<>>, isTyping |-> isTyping]

\* ChatWindow, handleInputChange(text): the timer holds the stopTyping of
\* the render the handler belongs to.
handleInputChange(r, text) ==
    IF trim(text) # "" /\ r.isConnected
    THEN [emitted |-> sendTyping(r).emitted, isTyping |-> sendTyping(r).isTyping,
          typingTimeout |-> [at |-> now + TypingDebounceMs, render |-> r]]
    ELSE [emitted |-> stopTyping(r).emitted, isTyping |-> stopTyping(r).isTyping,
          typingTimeout |-> typingTimeout]

\* ChatWindow.handleSendMessage: the events it emits, the text of the input
\* and isTyping after it.
sendFromInput(r, text) ==
    IF trim(text) = "" \/ ~r.isConnected
    THEN [emitted |-> <<>>, isTyping |-> isTyping, messageText |-> text]
    ELSE [emitted |-> stopTyping(r).emitted \o sendMessage(r, trim(text)),
          isTyping |-> stopTyping(r).isTyping, messageText |-> ""]

\* The chats a route can name.
RouteChatIds == {<<>>, SessionId(1), SessionId(2)}

\* The chats joined after the events are emitted in their order.
RECURSIVE AfterEvents(_, _)
AfterEvents(joined, events) ==
    IF events = <<>> THEN joined
    ELSE LET e == Head(events)
         IN  AfterEvents(CASE e.name = "join_chat" -> joined \cup {e.chatId}
                           [] e.name = "leave_chat" -> joined \ {e.chatId}
                           [] OTHER -> joined,
                         Tail(events))

\* What ChatWindow renders from: the state of its hooks.
WindowState ==
    <<socketStatus, socket, chatId, isTyping, otherUserTyping, messageText, chat, chatError>>

\* ChatWindow renders again when the state of its hooks has changed, not
\* when time passes: isExpired is isChatExpired(chat.expiresAt) as of the
\* last render that came to it.
Rendered ==
    isExpired' = IF WindowState' # WindowState
                 THEN chat' # Undefined /\ chatError' = Null /\ isChatExpired(chat'.expiresAt)
                 ELSE isExpired

\* useSocket, the effect at mount: with a token the socket is made and
\* connects, without one the status is 'error'.
Mounts(token) ==
    /\ ~socket
    /\ socketStatus = "disconnected"
    /\ socketStatus' = IF token THEN "connecting" ELSE "error"
    /\ socket' = token
    /\ emitted' = <<>>
    /\ UNCHANGED <<transportDropped, chatId, isTyping, otherUserTyping, typingSince, messageText, typingTimeout>>
    /\ UNCHANGED <<now, leases, sweepPending, clientVars, sessionVars, chatVars, apiVars,
                   sellVars, card, messagesOf>>
    /\ UNCHANGED lastInputAt
    /\ joinedChats' = AfterEvents(joinedChats, emitted')
    /\ Rendered

\* socket.on('connect'), also after a transport drop.
Connects ==
    /\ socket
    /\ ~isConnected
    /\ socketStatus' = "connected"
    /\ emitted' = Effects(Render, [Render EXCEPT !.isConnected = TRUE])
    /\ UNCHANGED <<transportDropped, socket, chatId, isTyping, otherUserTyping, typingSince, messageText,
                   typingTimeout>>
    /\ UNCHANGED <<now, leases, sweepPending, clientVars, sessionVars, chatVars, apiVars,
                   sellVars, card, messagesOf>>
    /\ UNCHANGED lastInputAt
    /\ joinedChats' = AfterEvents(joinedChats, emitted')
    /\ Rendered

\* socket.on('disconnect'): the transport drops.
Disconnects ==
    /\ isConnected
    /\ socketStatus' = "disconnected"
    /\ emitted' = Effects(Render, [Render EXCEPT !.isConnected = FALSE])
    /\ transportDropped' = TRUE
    /\ UNCHANGED <<socket, chatId, isTyping, otherUserTyping, typingSince, messageText,
                   typingTimeout>>
    /\ UNCHANGED <<now, leases, sweepPending, clientVars, sessionVars, chatVars, apiVars,
                   sellVars, card, messagesOf>>
    /\ UNCHANGED lastInputAt
    /\ joinedChats' = AfterEvents(joinedChats, emitted')
    /\ Rendered

\* socket.on('connect_error'): an attempt to connect fails.
ConnectError ==
    /\ socket
    /\ socketStatus \in {"connecting", "disconnected"}
    /\ socketStatus' = "error"
    /\ emitted' = <<>>
    /\ UNCHANGED <<transportDropped, socket, chatId, isTyping, otherUserTyping, typingSince, messageText,
                   typingTimeout>>
    /\ UNCHANGED <<now, leases, sweepPending, clientVars, sessionVars, chatVars, apiVars,
                   sellVars, card, messagesOf>>
    /\ UNCHANGED lastInputAt
    /\ joinedChats' = AfterEvents(joinedChats, emitted')
    /\ Rendered

\* The route changes to another chat, or to none.
Navigates(id) ==
    /\ id # chatId
    /\ chatId' = id
    /\ emitted' = Effects(Render, [Render EXCEPT !.chatId = id])
    /\ transportDropped' = FALSE
    /\ UNCHANGED <<socketStatus, socket, isTyping, otherUserTyping, typingSince, messageText,
                   typingTimeout>>
    /\ UNCHANGED <<now, leases, sweepPending, clientVars, sessionVars, chatVars, apiVars,
                   sellVars, card, messagesOf>>
    /\ UNCHANGED lastInputAt
    /\ joinedChats' = AfterEvents(joinedChats, emitted')
    /\ Rendered

\* socket.on('user_typing'): handleTyping
UserTyping ==
    /\ socket /\ chatId # <<>> /\ isConnected
    /\ otherUserTyping' = TRUE
    /\ typingSince' = now
    /\ emitted' = <<>>
    /\ UNCHANGED <<transportDropped, socketStatus, socket, chatId, isTyping, messageText, typingTimeout>>
    /\ UNCHANGED <<now, leases, sweepPending, clientVars, sessionVars, chatVars, apiVars,
                   sellVars, card, messagesOf>>
    /\ UNCHANGED lastInputAt
    /\ joinedChats' = AfterEvents(joinedChats, emitted')
    /\ Rendered

\* socket.on('user_stop_typing'): handleStopTyping
UserStopTyping ==
    /\ socket /\ chatId # <<>> /\ isConnected
    /\ otherUserTyping' = FALSE
    /\ typingSince' = 0
    /\ emitted' = <<>>
    /\ UNCHANGED <<transportDropped, socketStatus, socket, chatId, isTyping, messageText, typingTimeout>>
    /\ UNCHANGED <<now, leases, sweepPending, clientVars, sessionVars, chatVars, apiVars,
                   sellVars, card, messagesOf>>
    /\ UNCHANGED lastInputAt
    /\ joinedChats' = AfterEvents(joinedChats, emitted')
    /\ Rendered

\* Me types: the input's onChange.
InputChanges(text) ==
    LET done == handleInputChange(Render, text)
    IN  /\ isConnected
        /\ text # messageText
        /\ messageText' = text
        /\ isTyping' = done.isTyping
        /\ typingTimeout' = done.typingTimeout
        /\ emitted' = done.emitted
        /\ UNCHANGED <<transportDropped, socketStatus, socket, chatId, otherUserTyping, typingSince>>
        /\ UNCHANGED <<now, leases, sweepPending, clientVars, sessionVars, chatVars, apiVars,
                   sellVars, card, messagesOf>>
        /\ lastInputAt' = now
        /\ joinedChats' = AfterEvents(joinedChats, emitted')
        /\ Rendered

\* The timer of typingTimeoutRef fires: the stopTyping it holds runs.
TimeoutFires ==
    /\ typingTimeout # Null
    /\ now >= typingTimeout.at
    /\ isTyping' = stopTyping(typingTimeout.render).isTyping
    /\ emitted' = stopTyping(typingTimeout.render).emitted
    /\ typingTimeout' = Null
    /\ UNCHANGED <<transportDropped, socketStatus, socket, chatId, otherUserTyping, typingSince, messageText>>
    /\ UNCHANGED <<now, leases, sweepPending, clientVars, sessionVars, chatVars, apiVars,
                   sellVars, card, messagesOf>>
    /\ UNCHANGED lastInputAt
    /\ joinedChats' = AfterEvents(joinedChats, emitted')
    /\ Rendered

\* Me presses Enter or the send button.
SendsFromInput ==
    LET done == sendFromInput(Render, messageText)
    IN  /\ messageText' = done.messageText
        /\ isTyping' = done.isTyping
        /\ emitted' = done.emitted
        /\ UNCHANGED <<transportDropped, socketStatus, socket, chatId, otherUserTyping, typingSince, typingTimeout>>
        /\ UNCHANGED <<now, leases, sweepPending, clientVars, sessionVars, chatVars, apiVars,
                   sellVars, card, messagesOf>>
        /\ UNCHANGED lastInputAt
        /\ joinedChats' = AfterEvents(joinedChats, emitted')
        /\ Rendered

\* A second passes.
Ticks ==
    /\ now < MaxSeconds * 1000
    /\ now' = now + 1000
    /\ emitted' = <<>>
    /\ UNCHANGED <<transportDropped, socketStatus, socket, chatId, isTyping, otherUserTyping, typingSince,
                   messageText, typingTimeout>>
    /\ UNCHANGED <<leases, sweepPending, clientVars, sessionVars, chatVars, apiVars,
                   sellVars, card, messagesOf>>
    /\ UNCHANGED lastInputAt
    /\ joinedChats' = AfterEvents(joinedChats, emitted')
    /\ Rendered

\* The route leaves the chat window: the cleanups of the effects run, the
\* socket is disconnected and the state of the hooks is gone.  (Taken when
\* no timer of the input is pending.)
Unmounts ==
    /\ socket
    /\ typingTimeout = Null
    /\ emitted' = Effects(Render, [Render EXCEPT !.socket = FALSE, !.chatId = <<>>,
                                                 !.isConnected = FALSE])
    /\ socketStatus' = "disconnected"
    /\ socket' = FALSE
    /\ chatId' = <<>>
    /\ isTyping' = FALSE
    /\ otherUserTyping' = FALSE
    /\ typingSince' = 0
    /\ transportDropped' = FALSE
    /\ messageText' = ""
    /\ UNCHANGED typingTimeout
    /\ UNCHANGED <<now, leases, sweepPending, clientVars, sessionVars, chatVars, apiVars,
                   sellVars, card, messagesOf>>
    /\ UNCHANGED lastInputAt
    /\ joinedChats' = AfterEvents(joinedChats, emitted')
    /\ Rendered

NextSocket ==
    \/ \E token \in BOOLEAN : Mounts(token)
    \/ Unmounts
    \/ Connects
    \/ Disconnects
    \/ ConnectError
    \/ \E id \in RouteChatIds : Navigates(id)
    \/ UserTyping
    \/ UserStopTyping
    \/ \E text \in Messages : InputChanges(text)
    \/ TimeoutFires
    \/ SendsFromInput
    \/ Ticks

SpecSocket == Init /\ [][NextSocket]_vars

(***************************************************************************)
(* Typing in a chat window whose socket stays connected.  A timer that is  *)
(* due fires before the clock goes on.                                     *)
(***************************************************************************)
OpensChat ==
    /\ chatId = <<>>
    /\ Navigates(OpenChat)

TicksOnTime ==
    /\ IF typingTimeout = Null THEN TRUE ELSE now < typingTimeout.at
    /\ Ticks

NextTyping ==
    \/ Mounts(TRUE)
    \/ Connects
    \/ OpensChat
    \/ \E text \in Messages : InputChanges(text)
    \/ TimeoutFires
    \/ SendsFromInput
    \/ TicksOnTime

SpecTyping == Init /\ [][NextTyping]_vars

(***************************************************************************)
(* From the contact dialog to the chat window: the dialog navigates to     *)
(* /chat/<id> with the first message in the state of the location, the     *)
(* router renders ChatWindow for the chat of the route, the socket         *)
(* connects.  The user may type and send by hand.                          *)
(***************************************************************************)
\* The router renders the chat window for the route the dialog went to.
OpensRoute ==
    /\ location.path # <<>>
    /\ Navigates(location.path)

NextOpen ==
    \/ \E productId \in ChatProducts, message \in Messages, signal \in ExistingSignals,
             fetchFailed \in BOOLEAN :
          ContactSeller(Other, productId, message, signal, fetchFailed)
    \/ \E productId \in ChatProducts : Contacts(Other, Me, productId)
    \/ Mounts(TRUE)
    \/ Connects
    \/ OpensRoute
    \/ \E text \in Messages : InputChanges(text)
    \/ SendsFromInput

\* The window mounts, the socket connects and the route is rendered; what
\* the user does by hand is left to the user.
SpecOpen ==
    /\ Init /\ [][NextOpen]_vars
    /\ WF_vars(Mounts(TRUE)) /\ WF_vars(Connects) /\ WF_vars(OpensRoute)

(***************************************************************************)
(* The chat window fetches its chat: useChat over request(), against       *)
(* getSession of the session manager, and the error state it renders.      *)
(***************************************************************************)
\* getSession(sessionId, requesterId), as GET /chats/:chatId answers it.
getSession(ss, sessionId, requesterId) ==
    LET i == IndexOfSession(ss, sessionId)
    IN  IF i = 0 THEN Response(404, "Chat not found", Null)
        ELSE IF requesterId \notin Participants(ss[i])
        THEN Response(403, "Not a participant", Null)
        ELSE IF RetentionElapsed(ss[i])
        THEN Response(410, "Chat has expired", Null)
        ELSE Response(200, "", ChatJSON(ss[i]))

\* An is410Error that asks only whether the error has a status.
is410ErrorAnyStatus(error) ==
    error # Null /\ error.hasStatus

\* ChatWindow: is410Error
is410Error(error) ==
    error # Null /\ error.hasStatus /\ error.status = 410

\* ChatWindow, the error state: the title of the card.
ErrorTitle(error) ==
    IF is410Error(error) THEN "Chat Expired" ELSE "Chat Not Found"

\* What the body of a response can be on the wire: as the server wrote it,
\* or text that is not JSON (a truncated body, the page of a proxy).
Wire == {"intact", "malformed"}

OnWire(response, wire) ==
    IF wire = "malformed" THEN [response EXCEPT !.body = Malformed] ELSE response

\* useChat: the query of the chat runs and settles.
FetchesChat(id, requesterId, wire, fetchFailed) ==
    LET response == OnWire(getSession(sessions, id, requesterId), wire)
        result == request(response, fetchFailed)
    IN  /\ id # <<>>
        /\ chat' = IF result.ok THEN result.data ELSE chat
        /\ chatError' = IF result.ok THEN Null ELSE result
        /\ chatFetch' = [fetchFailed |-> fetchFailed,
                         status |-> IF fetchFailed THEN 0 ELSE response.status,
                         wire |-> IF fetchFailed THEN "intact" ELSE wire]
        /\ UNCHANGED <<leaseVars, clientVars, sessionVars, chatVars, socketVars, sellVars>>
        /\ UNCHANGED <<card, lastInputAt, joinedChats, messagesOf>>
        /\ Rendered

NextApi ==
    \/ \E userId \in Users, productId \in ChatProducts :
          Contacts(userId, Me, productId)
    \/ \E t \in RetentionInstants : Passes(t)
    \/ \E id \in RouteChatIds, requesterId \in Users, wire \in Wire,
             fetchFailed \in BOOLEAN :
          FetchesChat(id, requesterId, wire, fetchFailed)

SpecApi == Init /\ [][NextApi]_vars

(***************************************************************************)
(* The chat window over the retention boundary of its chat.  The input is  *)
(* part of what ChatWindow renders once the chat is loaded, and only while *)
(* the isExpired of the last render is false.                              *)
(***************************************************************************)
\* ChatWindow: {!isExpired && (<Card> ... <Textarea/> <Button/> ...)}, after
\* the returns for the loading and the error state and for no chat.
InputShown ==
    /\ chat # Undefined
    /\ chatError = Null
    /\ ~isExpired

\* useChat(chatId): the query of the chat of the route runs, at mount or
\* as a refetch.
LoadsChat ==
    /\ chatId # <<>>
    /\ FetchesChat(chatId, Me, "intact", FALSE)

TypesInWindow(text) ==
    /\ InputShown
    /\ InputChanges(text)

SendsInWindow ==
    /\ InputShown
    /\ SendsFromInput

NextExpiry ==
    \/ Contacts(Other, Me, ProductId(1))
    \/ \E t \in RetentionInstants : Passes(t)
    \/ Mounts(TRUE)
    \/ Connects
    \/ Disconnects
    \/ OpensChat
    \/ LoadsChat
    \/ \E text \in Messages : TypesInWindow(text)
    \/ SendsInWindow

SpecExpiry == Init /\ [][NextExpiry]_vars

(***************************************************************************)
(* One chat window over two chats of Me.  The hub sends the events of a    *)
(* chat to the sockets that have joined its room; an event is on its way   *)
(* for a while, and the window may go to another chat in between.          *)
(***************************************************************************)
\* The members of the room of a session on the hub: Me, once its join_chat
\* for the session is emitted and until its leave_chat.
RoomOf(sessionId) == IF sessionId \in joinedChats THEN {Me} ELSE {}

\* A participant posts a message to one of the sessions; the hub fans it
\* out to the room of that session.
Publishes(senderId, sessionId, body) ==
    LET served == postMessage(sessions, messages, summaries, sessionId, senderId, body)
    IN  /\ Len(served.messages) <= MaxMessages
        /\ messages' = served.messages
        /\ summaries' = served.summaries
        /\ lastPost' = served.response
        /\ inbox' = inbox \o publishMessage(RoomOf(sessionId), served.response, senderId)
        /\ UNCHANGED <<room, messagesData, chatsData, pendingMessages, pendingChats>>
        /\ UNCHANGED <<leaseVars, clientVars, sessionVars, socketVars, apiVars, sellVars,
                       viewVars>>

\* A receive_message event arrives at the socket.  The listener is the one
\* the effect of the last render has registered, for the chatId of that
\* render; without socket or chatId there is no listener.
ReceivesInWindow ==
    /\ inbox # <<>>
    /\ inbox' = Tail(inbox)
    /\ IF socket /\ chatId # <<>>
       THEN /\ messagesOf' = [messagesOf EXCEPT
                                 ![chatId] = handleReceiveMessage(Data(@), Head(inbox))]
            /\ stale' = stale \cup {"chats"}
       ELSE UNCHANGED <<messagesOf, stale>>
    /\ UNCHANGED <<messages, summaries, lastPost, room, messagesData, chatsData,
                   pendingMessages, pendingChats>>
    /\ UNCHANGED <<myData, productReservation, reservation, toast, lastRequest>>
    /\ UNCHANGED <<leaseVars, sessionVars, socketVars, apiVars, sellVars>>
    /\ UNCHANGED <<card, lastInputAt, isExpired, joinedChats>>

\* The route goes to one of the chats of Me, or away from the chats.
OpensChatOf(id) ==
    /\ IF id = <<>> THEN TRUE ELSE IndexOfSession(sessions, id) # 0
    /\ Navigates(id)

NextRooms ==
    \/ \E productId \in ChatProducts : Contacts(Other, Me, productId)
    \/ Mounts(TRUE)
    \/ Connects
    \/ \E id \in RouteChatIds : OpensChatOf(id)
    \/ \E sessionId \in RouteChats : Publishes(Other, sessionId, "hi")
    \/ ReceivesInWindow

SpecRooms == Init /\ [][NextRooms]_vars

(***************************************************************************)
(* The images of a listing: handleImageUpload, removeImage and             *)
(* handleSubmit of the Sell page, against POST /api/products.              *)
(***************************************************************************)
MAX_IMAGES == 6

\* The number of times the file dialog is used.
MaxSelections == 2

\* The numbers of files a selection can hold.
FileCounts == {1, 3, 7}

\* handleImageUpload, up to its first await: the number of files it goes
\* on to compress, of `files` files selected of which `invalid` fail the
\* checks of type and size or the compression.  It counts the slots left
\* from the imageFiles of the render it belongs to.
filesToProcess(images, files, invalid) ==
    LET currentImageCount == Len(images)
        remainingSlots == MAX_IMAGES - currentImageCount
        sliced == IF files < remainingSlots THEN files ELSE remainingSlots
    IN  IF files = 0 \/ remainingSlots <= 0 THEN 0
        ELSE IF invalid >= sliced THEN 0
        ELSE sliced - invalid

\* setImageFiles((prev) => [...prev, ...newFiles])
appendFiles(prev, selection, processedCount) ==
    prev \o [k \in 1..processedCount |-> selection]

\* removeImage(index): prev.filter((_, i) => i !== index)
removeImage(prev, index) ==
    [k \in 1..(Len(prev) - 1) |-> IF k < index THEN prev[k] ELSE prev[k + 1]]

\* router.post('/'), with the other fields of the form filled in: the
\* answer to a request with so many images.
createProduct(images) ==
    IF images = 0 THEN Response(400, "At least one image is required", Null)
    ELSE IF images > 6 THEN Response(400, "Maximum 6 images allowed", Null)
    ELSE Response(201, "Product created successfully", Null)

\* The file input changes: handleImageUpload starts.  The input is on the
\* page while imageFiles.length < MAX_IMAGES, also while an earlier
\* selection is being compressed.
SelectsFiles(files, invalid) ==
    LET processedCount == filesToProcess(imageFiles, files, invalid)
    IN  /\ Len(imageFiles) < MAX_IMAGES
        /\ selections < MaxSelections
        /\ selections' = selections + 1
        /\ uploads' = IF processedCount > 0
                      THEN Append(uploads, [selection |-> selections + 1,
                                            processedCount |-> processedCount])
                      ELSE uploads
        /\ UNCHANGED <<imageFiles, listings, productResponse>>
        /\ UNCHANGED <<leaseVars, clientVars, sessionVars, chatVars, socketVars, apiVars,
                   viewVars>>

\* The compression of a selection is done: handleImageUpload goes on after
\* its last await.
CompressionDone(i) ==
    /\ i \in 1..Len(uploads)
    /\ imageFiles' = appendFiles(imageFiles, uploads[i].selection, uploads[i].processedCount)
    /\ uploads' = [k \in 1..(Len(uploads) - 1) |-> IF k < i THEN uploads[k] ELSE uploads[k + 1]]
    /\ UNCHANGED <<selections, listings, productResponse>>
    /\ UNCHANGED <<leaseVars, clientVars, sessionVars, chatVars, socketVars, apiVars,
                   viewVars>>

\* The button on an image.
RemovesImage(index) ==
    /\ index \in 1..Len(imageFiles)
    /\ imageFiles' = removeImage(imageFiles, index)
    /\ UNCHANGED <<uploads, selections, listings, productResponse>>
    /\ UNCHANGED <<leaseVars, clientVars, sessionVars, chatVars, socketVars, apiVars,
                   viewVars>>

\* handleSubmit: without images it stops at a toast; otherwise it uploads
\* the images and asks for the product with their URLs.  After a product
\* is created the page is left.
Submits ==
    LET response == createProduct(Len(imageFiles))
    IN  /\ productResponse # 201
        /\ Len(imageFiles) > 0
        /\ productResponse' = response.status
        /\ listings' = IF response.status = 201
                       THEN Append(listings, Len(imageFiles)) ELSE listings
        /\ UNCHANGED <<imageFiles, uploads, selections>>
        /\ UNCHANGED <<leaseVars, clientVars, sessionVars, chatVars, socketVars, apiVars,
                   viewVars>>

NextSell ==
    \/ \E files \in FileCounts, invalid \in 0..1 : SelectsFiles(files, invalid)
    \/ \E i \in 1..MaxSelections : CompressionDone(i)
    \/ \E index \in 1..(MAX_IMAGES * MaxSelections) : RemovesImage(index)
    \/ Submits

SpecSell == Init /\ [][NextSell]_vars

(***************************************************************************)
(* ProductCard.  A text that is built from parts (the link target, the     *)
(* price) is a sequence of characters; a price is a number of thousandths. *)
(***************************************************************************)
DecimalDigits == <<"0", "1", "2", "3", "4", "5", "6", "7", "8", "9">>

\* String(n) of a natural number.
RECURSIVE Decimal(_)
Decimal(n) ==
    IF n < 10 THEN <<DecimalDigits[n + 1]>>
    ELSE Decimal(n \div 10) \o <<DecimalDigits[(n % 10) + 1]>>

\* String(Math.round(price * 100) / 100): the zeros at the end are dropped.
toFixedUnpadded(price) ==
    LET hundredths == (price + 5) \div 10
        whole == Decimal(hundredths \div 100)
    IN  IF hundredths % 100 = 0 THEN whole
        ELSE IF hundredths % 10 = 0
        THEN whole \o <<".", DecimalDigits[((hundredths \div 10) % 10) + 1]>>
        ELSE whole \o <<".", DecimalDigits[((hundredths \div 10) % 10) + 1],
                        DecimalDigits[(hundredths % 10) + 1]>>

\* price.toFixed(2), of a price that is not negative and below 10^21: the
\* nearest number of hundredths, with both digits after the point.
toFixed(price) ==
    LET hundredths == (price + 5) \div 10
    IN  Decimal(hundredths \div 100)
          \o <<".", DecimalDigits[((hundredths \div 10) % 10) + 1],
                    DecimalDigits[(hundredths % 10) + 1]>>

\* `/product/${id}`
ProductPath(id) == <<"/", "p", "r", "o", "d", "u", "c", "t", "/">> \o id

\* ProductCard: the links and the texts it renders.
ProductCard(id, title, price, category, place, seller) ==
    [links |-> <<ProductPath(id)>>,
     title |-> title,
     price |-> <<"$">> \o toFixed(price),
     category |-> category,
     location |-> IF place # "" THEN <<place>> ELSE <<>>,
     seller |-> IF seller # "" THEN <<seller>> ELSE <<>>,
     buttons |-> <<"favorite", "Add to Cart">>]

\* The props of the cards that are rendered.  The prices, in thousandths,
\* are not halfway between two numbers of hundredths.
CardIds == Products \cup {UnknownId, <<"1">>}
Titles == {"Test Product", "Books"}
Prices == {0, 4, 999, 1000, 9900, 9990, 9994, 9996, 10000, 1234567}
Categories == {"Books", "Electronics"}
Locations == {"", "Library"}
SellerNames == {"", "Alice"}

RendersCard(id, title, price, category, place, seller) ==
    /\ card' = [id |-> id, title |-> title, price |-> price, category |-> category,
                view |-> ProductCard(id, title, price, category, place, seller)]
    /\ UNCHANGED <<lastInputAt, isExpired, joinedChats, messagesOf>>
    /\ UNCHANGED <<leaseVars, clientVars, sessionVars, chatVars, socketVars, apiVars,
                   sellVars>>

NextCard ==
    \E id \in CardIds, title \in Titles, price \in Prices, category \in Categories,
       place \in Locations, seller \in SellerNames :
        RendersCard(id, title, price, category, place, seller)

SpecCard == Init /\ [][NextCard]_vars

(***************************************************************************)
(* Properties of the lease manager and of the client's reading of a lease. *)
(***************************************************************************)
Terminal == {"CANCELLED", "EXPIRED"}

\* C1: every product has at most one ACTIVE lease, whatever the order in
\* which the create requests of the principals are handled; and a create
\* request for a product that has an ACTIVE lease is answered with a
\* conflict (409) and leaves the lease store as it was.
C1_AtMostOneActiveLease ==
    \A productId \in Products :
        /\ Cardinality(ActiveOf(leases, productId)) <= 1
        /\ ActiveOf(leases, productId) # {} =>
              \A userId \in Users, durationMinutes \in DURATION_OPTIONS :
                  LET served == createLease(leases, productId, userId, durationMinutes)
                  IN  /\ served.response.status = 409
                      /\ served.leases = leases

\* A product is leased for the second time, its first lease being over, and
\* a create request of the other principal would meet the ACTIVE lease.
C1_Witness ==
    \E i, j \in LeaseIndexes :
        /\ i < j
        /\ leases[i].product = leases[j].product
        /\ leases[i].status \in Terminal
        /\ leases[j].status = "ACTIVE"
        /\ leases[j].holder = 1
        /\ createLease(leases, ProductId(leases[j].product), Other, 30).response.status = 409

\* C2: when a cancel request and the expiry sweep both go for the same
\* ACTIVE lease, the first to write commits and the other observes a
\* conflict and changes nothing: on an ACTIVE lease either would commit; on
\* a lease the cancel has won, the sweep's write fails and leaves the store
\* as it was; on a lease the sweep has won, the cancel is answered with a
\* conflict (409) and leaves the store as it was.
C2_FirstWriterWins ==
    \A i \in LeaseIndexes :
        LET cancelled == cancelLease(leases, ToJSON(leases[i])._id, UserId(leases[i].holder))
            swept == Transition(leases, i, "EXPIRED")
        IN  /\ leases[i].status = "ACTIVE" =>
                  /\ cancelled.response.status = 200
                  /\ cancelled.leases[i].status = "CANCELLED"
                  /\ swept[i].status = "EXPIRED"
            /\ leases[i].status = "CANCELLED" =>
                  /\ ~CasCommits(leases, i)
                  /\ swept = leases
            /\ leases[i].status = "EXPIRED" =>
                  /\ cancelled.response.status = 409
                  /\ cancelled.leases = leases

\* The sweep has read two leases as due; it has written one of them, and
\* the holder of the other has cancelled it before the sweep's write.
C2_Witness ==
    \E i \in sweepPending, j \in LeaseIndexes :
        /\ leases[i].status = "CANCELLED"
        /\ leases[j].status = "EXPIRED"

\* C3: a lease created at t for D minutes, D one of 30, 60, 120 and 1440, is
\* not treated as expired while the clock is before t + D minutes: the sweep
\* has neither expired it nor read it as due, and isReservationExpired is
\* false of its expiry date.
C3_NoEarlyExpiry ==
    \A i \in LeaseIndexes :
        LET l == leases[i]
        IN  /\ l.durationMinutes \in DURATION_OPTIONS
            /\ now < l.reservedAt + l.durationMinutes * MsPerMinute =>
                  /\ l.status # "EXPIRED"
                  /\ i \notin sweepPending
                  /\ ~isReservationExpired(ToJSON(l).expiresAt)

\* The sweep has expired a lease, and at the same clock another lease,
\* created earlier than now, is before its expiry.
C3_Witness ==
    \E i, j \in LeaseIndexes :
        /\ leases[j].status = "EXPIRED"
        /\ leases[i].status = "ACTIVE"
        /\ leases[i].reservedAt < now
        /\ now < leases[i].reservedAt + leases[i].durationMinutes * MsPerMinute

\* C4: isReservationActive is false of every lease whose expiry the clock
\* has reached (now >= expiresAt).
C4_InactiveFromExpiry ==
    \A i \in LeaseIndexes :
        now >= leases[i].expiresAt => ~isReservationActive(ToJSON(leases[i]))

\* C5: the status of a lease changes only from ACTIVE to CANCELLED or from
\* ACTIVE to EXPIRED, a lease that is CANCELLED or EXPIRED stays as it is
\* and stays in the store, and the leases of the store have distinct ids.
\* Only the holder's cancel changes a lease, and a lease is EXPIRED only
\* when the clock has reached its expiry.
C5_StatusTransitions ==
    /\ [](\A i, j \in LeaseIndexes : i # j => ToJSON(leases[i])._id # ToJSON(leases[j])._id)
    /\ [](\A i \in LeaseIndexes :
             /\ leases[i].status = "EXPIRED" => now >= leases[i].expiresAt
             /\ \A userId \in Users \ {UserId(leases[i].holder)} :
                   cancelLease(leases, ToJSON(leases[i])._id, userId).leases = leases)
    /\ [][\A i \in LeaseIndexes :
              /\ i <= Len(leases')
              /\ ToJSON(leases'[i])._id = ToJSON(leases[i])._id
              /\ leases'[i].status # leases[i].status =>
                    /\ leases[i].status = "ACTIVE"
                    /\ leases'[i].status \in Terminal]_vars

\* A product's first lease is CANCELLED, and a lease made later for the
\* same product, under another id, is EXPIRED.
C5_Witness ==
    \E i, j \in LeaseIndexes :
        /\ i < j
        /\ leases[i].product = leases[j].product
        /\ leases[i].status = "CANCELLED"
        /\ leases[j].status = "EXPIRED"
        /\ ToJSON(leases[i])._id # ToJSON(leases[j])._id

\* C6: a cancel request for a lease that is not ACTIVE is answered with a
\* conflict (409) or not-found (404) and leaves the store as it was; of two
\* successive cancels of a lease by its holder the first succeeds exactly
\* when the lease is ACTIVE and the second fails and changes nothing; and
\* for the failed cancel the client shows the 'Cancellation failed' toast
\* with the server's message and invalidates no cached query.
C6_CancelOfEndedLeaseFails ==
    \A i \in LeaseIndexes :
        LET id == ToJSON(leases[i])._id
            holder == UserId(leases[i].holder)
            first == cancelLease(leases, id, holder)
            second == cancelLease(first.leases, id, holder)
            failure == request(second.response, FALSE)
        IN  /\ leases[i].status # "ACTIVE" =>
                  /\ first.response.status \in {404, 409}
                  /\ first.leases = leases
            /\ leases[i].status = "ACTIVE" =>
                  /\ first.response.status = 200
                  /\ first.leases[i].status = "CANCELLED"
            /\ second.response.status \in {404, 409}
            /\ second.leases = first.leases
            /\ ~failure.ok
            /\ Invalidated(failure, cancelOnSuccess) = {}
            /\ cancelToast(failure) =
                   Toast("error", "Cancellation failed", second.response.message)

\* The holder has cancelled a lease before its expiry, another lease has
\* been expired by the sweep, and a cancel of either is answered with a
\* conflict.
C6_Witness ==
    \E i, j \in LeaseIndexes :
        /\ leases[i].status = "CANCELLED"
        /\ now < leases[i].expiresAt
        /\ leases[j].status = "EXPIRED"
        /\ \A k \in {i, j} :
              cancelLease(leases, ToJSON(leases[k])._id,
                          UserId(leases[k].holder)).response.status = 409

\* C7: a reservation with a duration that is not 30, 60, 120 or 1440
\* minutes is rejected by useCreateReservation before a request is sent:
\* whatever the product id and whatever the server would answer, no request
\* leaves the client (so no lease is created), no cached query is
\* invalidated and the error is shown; and every create request that has
\* reached the server carries one of the four durations.
C7_InvalidDurationRejected ==
    /\ lastRequest.method = "POST" => lastRequest.durationMinutes \in {30, 60, 120, 1440}
    /\ \A productId \in PageProductIds,
          durationMinutes \in DurationInputs \ {30, 60, 120, 1440},
          response \in CreateResponses, fetchFailed \in BOOLEAN :
            LET outcome == handleReserve(productId, durationMinutes, response, fetchFailed)
            IN  /\ outcome.request = NoRequest
                /\ outcome.invalidated = {}
                /\ outcome.toast.kind = "error"

\* The invalid duration has been refused after an earlier cancel had been
\* sent and had invalidated queries: the error is on screen, the last
\* request is still the cancel.
C7_Witness ==
    /\ toast = Toast("error", "Reservation failed",
                     "Invalid duration. Must be 30, 60, 120, or 1440 minutes")
    /\ lastRequest.method = "DELETE"
    /\ stale # {}

\* C8: an id that is not 24 hexadecimal characters never reaches the
\* server through the reservation operations: every request that carries
\* an id carries 24 hexadecimal characters; create and cancel, given another
\* id, send no request and show an error; the per-product and per-id
\* queries, given another id, send no request and have no data.
C8_OnlyObjectIdsReachTheServer ==
    /\ lastRequest.path \in {"/reservations", "/reservations/:id",
                              "/reservations/product/:productId"} =>
          /\ Len(lastRequest.id) = 24
          /\ \A i \in 1..24 : lastRequest.id[i] \in HexChars
    /\ \A id \in MalformedIds, fetchFailed \in BOOLEAN :
          /\ \A durationMinutes \in DurationInputs, response \in CreateResponses :
                LET outcome == handleReserve(id, durationMinutes, response, fetchFailed)
                IN  outcome.request = NoRequest /\ outcome.toast.kind = "error"
          /\ \A response \in CancelResponses :
                LET outcome == handleCancelReservation(id, response, fetchFailed)
                IN  outcome.request = NoRequest /\ outcome.toast.kind = "error"
          /\ \A response \in ProductReservationResponses :
                LET outcome == useProductReservation(id, response, fetchFailed)
                IN  outcome.request = NoRequest /\ outcome.data = Undefined
          /\ \A response \in ReservationResponses :
                LET outcome == useReservation(id, response, fetchFailed)
                IN  outcome.request = NoRequest /\ outcome.data = Undefined

\* A cancel with a malformed id has been refused, and the queries given
\* malformed ids have no data, after a create request with a well-formed id.
C8_Witness ==
    /\ toast = Toast("error", "Cancellation failed", "Invalid reservation ID")
    /\ lastRequest.method = "POST"
    /\ productReservation = Undefined
    /\ reservation = Undefined

\* C9, as stated: the per-product read never yields a lease whose status is
\* EXPIRED or CANCELLED, whatever the server responds.
C9_NeverYieldsEndedLease ==
    \/ productReservation \in {Undefined, Null}
    \/ productReservation.status = "ACTIVE"

\* C9, amended: the per-product read yields what the server's response
\* carries and filters nothing: the body of a 2xx response, whatever the
\* status of the lease in it, none for a failed request, and no data for an
\* id that is not an object id.  So the data of the query is always no
\* data, none, or the body of a 2xx response.
C9_YieldsTheResponseBody ==
    /\ productReservation \in
          {Undefined, Null} \cup
          {response.body : response \in
              {r \in ProductReservationResponses : r.status \in 200..299}}
    /\ \A productId \in PageProductIds, response \in ProductReservationResponses,
          fetchFailed \in BOOLEAN :
            useProductReservation(productId, response, fetchFailed).data =
                IF productId \in MalformedIds THEN Undefined
                ELSE IF fetchFailed \/ response.status \notin 200..299 THEN Null
                ELSE response.body

\* The read has yielded a CANCELLED lease.
C9_Witness ==
    /\ lastRequest.path = "/reservations/product/:productId"
    /\ productReservation = SampleReservation("CANCELLED")

\* C10: createOrGetSession is keyed by the unordered pair of participants
\* and the optional product.  No two sessions of the store have the same
\* key; a call and a second call with the participants swapped and the same
\* product return the same session id, the first created exactly when the
\* store had no session of the key, the second never created and leaving the
\* store as it was; and a contact request of Me that the server answers
\* from an existing session, by a 200 or by a 409, takes the client to the
\* chat of that session with the trimmed message.
C10_OneSessionPerKey ==
    /\ \A i, j \in 1..Len(sessions) :
          i # j =>
            \/ {sessions[i].initiator, sessions[i].counterparty} #
                   {sessions[j].initiator, sessions[j].counterparty}
            \/ sessions[i].product # sessions[j].product
    /\ \A a, b \in Users, productId \in ContactProducts :
          LET first == createOrGetSession(sessions, a, b, productId)
              second == createOrGetSession(first.sessions, b, a, productId)
          IN  a # b =>
                /\ first.session._id = second.session._id
                /\ first.created =
                      (\A i \in 1..Len(sessions) :
                          \/ {sessions[i].initiator, sessions[i].counterparty} # {a, b}
                          \/ sessions[i].product # productId)
                /\ ~second.created
                /\ second.sessions = first.sessions
    /\ \A i \in 1..Len(sessions), signal \in ExistingSignals :
          LET s == sessions[i]
              data == [sellerId |-> Other, productId |-> s.product]
              served == postChat(sessions, Me, data, signal)
              outcome == handleSendMessage(" hi ", Other, s.product, served.response, FALSE)
          IN  {s.initiator, s.counterparty} = {Me, Other} =>
                /\ served.sessions = sessions
                /\ outcome.navigate = ChatRoute(s._id, "hi")

\* The other principal has opened a session with Me over a product, and Me,
\* contacting them over the same product, is at the chat of that session.
C10_Witness ==
    \E i \in 1..Len(sessions) :
        /\ sessions[i].initiator = Other
        /\ sessions[i].counterparty = Me
        /\ sessions[i].product \in Products
        /\ location = ChatRoute(sessions[i]._id, "hi")
        /\ Len(sessions) = MaxSessions

(***************************************************************************)
(* Properties of the messages of a session.                                *)
(***************************************************************************)
\* C11: a message posted strictly after creation + 7 days is answered 410
\* (Gone) and the log and the summary stay as they are; a message posted
\* up to then, in particular at creation + 7 days - 1 second, is accepted
\* and appended; isChatExpired of the session's expiresAt is true exactly
\* when the post is answered Gone.
C11_RetentionBoundary ==
    \A i \in 1..Len(sessions) : \A senderId \in Participants(sessions[i]) :
        LET s == sessions[i]
            served == postMessage(sessions, messages, summaries, s._id, senderId, "hi")
            gone == served.response.status = 410
        IN  /\ s.expiresAt = s.createdAt + 7 * 24 * 60 * 60 * 1000
            /\ gone <=> now > s.createdAt + 7 * 24 * 60 * 60 * 1000
            /\ gone => served.messages = messages /\ served.summaries = summaries
            /\ ~gone =>
                  /\ served.response.status = 201
                  /\ served.messages = Append(messages, served.messages[Len(messages) + 1])
                  /\ served.messages[Len(messages) + 1].createdAt = now
            /\ now = s.createdAt + 7 * 24 * 60 * 60 * 1000 - 1000 => ~gone
            /\ isChatExpired(ChatJSON(s).expiresAt) <=> gone

\* A message was accepted one second before the end of the window, and a
\* later post to the same session was answered Gone.
C11_Witness ==
    /\ lastPost # Null
    /\ lastPost.status = 410
    /\ \E i \in 1..Len(sessions) : \E k \in 1..Len(messages) :
          /\ messages[k].chat = sessions[i]._id
          /\ messages[k].createdAt = sessions[i].expiresAt - 1000
          /\ now > sessions[i].expiresAt

\* The summary and the log of a session agree: no summary without a
\* message, and the last-message fields are those of the last message.
SummaryReflects(lastMessage, lastMessageAt, log) ==
    IF log = <<>>
    THEN lastMessage = "" /\ lastMessageAt = EmptyString
    ELSE /\ lastMessage = log[Len(log)].message
         /\ lastMessageAt = log[Len(log)].createdAt

\* C12: a reader never sees a summary of a session (last message, unread
\* counter) that names a message the log does not hold, nor a log with a
\* message the summary does not reflect: on the server, and in the cached
\* chat list and cached message list of the client.
C12_SummaryMatchesLog ==
    /\ \A i \in 1..Len(sessions) :
          LET log == getMessages(messages, sessions[i]._id)
              summary == SummaryOf(summaries, sessions[i]._id)
          IN  /\ SummaryReflects(summary.lastMessage, summary.lastMessageAt, log)
              /\ \A u \in Users :
                    summary.unread[u] <= Cardinality({k \in 1..Len(log) : log[k].receiverId = u})
    /\ \A k \in 1..Len(chatsData) :
          chatsData[k]._id = OpenChat =>
             SummaryReflects(chatsData[k].lastMessage, chatsData[k].lastMessageAt, messagesData)

\* The places of the messages of a list in the log of the open chat.
PlacesInLog(list) ==
    LET log == getMessages(messages, OpenChat)
    IN  [k \in 1..Len(list) |-> {j \in 1..Len(log) : log[j] = list[k]}]

\* The list holds messages of the log, in the order of the log.
InLogOrder(list) ==
    /\ \A k \in 1..Len(list) : PlacesInLog(list)[k] # {}
    /\ \A k, l \in 1..Len(list) :
          k < l => \A a \in PlacesInLog(list)[k], b \in PlacesInLog(list)[l] : a < b

\* C13: the log of a session is in the order postMessage accepted the
\* messages, by creation time; the message list of the client holds
\* messages of the log in the order of the log, whatever events and
\* fetches it was made of, and so does every list a fetch or an event on
\* its way will make.
C13_LogOrder ==
    /\ \A k, l \in 1..Len(messages) :
          k < l => messages[k].key < messages[l].key /\ messages[k].createdAt <= messages[l].createdAt
    /\ InLogOrder(messagesData)
    /\ inbox # <<>> => InLogOrder(handleReceiveMessage(Data(messagesData), Head(inbox)))
    /\ pendingMessages # Undefined =>
          \A format \in ListFormats :
             InLogOrder(useMessages(messagesData,
                                    Formatted(pendingMessages, format, "messages"), FALSE))

\* The client's list holds the two messages of the log, the second of
\* them from a receive_message event (the chat list is still invalidated),
\* and a fetch that read the log when it held one message is on its way.
C13_Witness ==
    /\ Len(messagesData) = 2
    /\ Len(getMessages(messages, OpenChat)) = 2
    /\ inbox = <<>>
    /\ "chats" \in stale
    /\ pendingMessages # Undefined
    /\ pendingMessages.status = 200
    /\ Len(pendingMessages.body.items) = 1

\* The ids of the messages of a list.
IdsOf(list) == {list[k]._id : k \in 1..Len(list)}

\* C14: the message list of the client holds each message id at most
\* once, and still does after the event of any message of the log, known
\* or not, is delivered to it.
C14_AtMostOnce ==
    /\ Cardinality(IdsOf(messagesData)) = Len(messagesData)
    /\ \A j \in 1..Len(getMessages(messages, OpenChat)) :
          LET after == handleReceiveMessage(Data(messagesData),
                                            getMessages(messages, OpenChat)[j])
          IN  Cardinality(IdsOf(after)) = Len(after)

\* The event of a message is on its way to a list that already holds the
\* message.
C14_Witness ==
    /\ inbox # <<>>
    /\ Head(inbox)._id \in IdsOf(messagesData)
    /\ handleReceiveMessage(Data(messagesData), Head(inbox)) = messagesData

\* C15: a typing indicator does not stay shown: when no stop-typing signal
\* arrives after a typing signal, the indicator is cleared within the window
\* of the debounce.
C15_IndicatorExpires ==
    otherUserTyping => now - typingSince <= TypingDebounceMs

hasEmitted(name, id) ==
    \E k \in 1..Len(emitted) : emitted[k].name = name /\ emitted[k].chatId = id

\* C16: every step in which isConnected turns from false to true while the
\* route names a chat emits join_chat with the id of that chat.
C16_RejoinsOnConnect ==
    [][(~isConnected /\ isConnected' /\ chatId' # <<>>)
         => \E k \in 1..Len(emitted') : emitted'[k] = Event("join_chat", chatId', "")]_vars

\* The socket has connected again after the transport dropped with the chat
\* open, and the step has emitted join_chat for the chat.
C16_Witness ==
    /\ transportDropped
    /\ isConnected
    /\ chatId = SessionId(1)
    /\ hasEmitted("join_chat", SessionId(1))

\* C17: sendMessage emits send_message exactly when the socket is there and
\* connected, a chat is set and the trimmed text is not empty, and then it
\* emits that one event with the trimmed text as its body; no event a step
\* emits is a send_message with an empty or whitespace-only body.
C17_NoEmptyMessage ==
    /\ \A message \in Messages :
          LET out == sendMessage(Render, message)
              mayEmit == socket /\ isConnected /\ chatId # <<>>
                         /\ message \notin {"", "  "}
          IN  /\ mayEmit => out = <<Event("send_message", chatId,
                                           IF message = " hi " THEN "hi" ELSE message)>>
              /\ ~mayEmit => out = <<>>
    /\ \A k \in 1..Len(emitted) :
          emitted[k].name = "send_message"
            => /\ emitted[k].message \in {"hi"}
               /\ emitted[k].chatId = chatId
               /\ chatId # <<>>
               /\ isConnected

\* The input held " hi " and the step sent it: the event carries "hi".
C17_Witness ==
    /\ hasEmitted("send_message", SessionId(1))
    /\ \E k \in 1..Len(emitted) : emitted[k].message = "hi"
    /\ messageText = ""
    /\ sendMessage(Render, " hi ") = <<Event("send_message", SessionId(1), "hi")>>
    /\ sendMessage(Render, "  ") = <<>>

\* C18: the chat window shows 'Chat Expired' exactly when the fetch of the
\* chat was answered with status 410, and 'Chat Not Found' after every
\* other failure of the fetch.
C18_ExpiredIsNotUnknown ==
    chatError # Null
      => /\ ErrorTitle(chatError) \in {"Chat Expired", "Chat Not Found"}
         /\ ErrorTitle(chatError) = "Chat Expired"
              <=> (~chatFetch.fetchFailed /\ chatFetch.status = 410)

\* The clock is past the retention window of a chat, the fetch of the chat
\* was answered Gone, and the window shows 'Chat Expired'.
C18_Witness ==
    /\ chatError # Null
    /\ chatFetch.status = 410
    /\ \E i \in 1..Len(sessions) : RetentionElapsed(sessions[i])
    /\ ErrorTitle(chatError) = "Chat Expired"

\* C19: the error of every failed request has a status and a message; a
\* response that is not 2xx gives its HTTP status with isNetworkError
\* false, a failed fetch gives status 0 with isNetworkError true.
C19_ErrorsCarryStatus ==
    chatError # Null
      => /\ chatError.hasStatus
         /\ chatError.message # ""
         /\ chatFetch.fetchFailed
              => chatError.status = 0 /\ chatError.isNetworkError
         /\ ~chatFetch.fetchFailed
              => chatError.status = chatFetch.status /\ ~chatError.isNetworkError
         /\ chatError.status = 409 => ~chatError.isNetworkError

\* The products the server has created have between 1 and 6 images.
ListingsWithinLimit ==
    \A k \in 1..Len(listings) : listings[k] \in 1..MAX_IMAGES

\* C20: the list of selected images never has more than 6 entries, and the
\* server creates no product with more than 6 images.
C20_AtMostSixImages ==
    /\ Len(imageFiles) <= MAX_IMAGES
    /\ ListingsWithinLimit

\* The digit a character writes, -1 when it is no digit.
DigitOf(c) ==
    IF \E d \in 0..9 : DecimalDigits[d + 1] = c
    THEN CHOOSE d \in 0..9 : DecimalDigits[d + 1] = c
    ELSE 0 - 1

\* The number a sequence of digits writes.
RECURSIVE NumberOf(_)
NumberOf(text) ==
    IF text = <<>> THEN 0
    ELSE 10 * NumberOf(SubSeq(text, 1, Len(text) - 1)) + DigitOf(text[Len(text)])

C22_InitialMessageSent ==
    (location.initialMessage # "" /\ chatId = location.path /\ isConnected)
      ~> (\E k \in 1..Len(emitted) :
            /\ emitted[k].name = "send_message"
            /\ emitted[k].chatId = location.path
            /\ emitted[k].message = location.initialMessage)

\* C23: a message Me sent on the socket while joined comes to be in Me's
\* cached list of the chat, with no fetch of the history.
C23_OwnMessageArrives ==
    \A k \in 1..(MaxMessages + 1) :
        (Len(messages) >= k /\ messages[k].senderId = Me /\ messages[k].chat = OpenChat)
          ~> (MessageId(k) \in IdsOf(messagesData))

\* C24: while the socket stays connected, a 'typing' that was emitted is
\* followed by a 'stop_typing' no later than 2 seconds after the last
\* change of the input, and 'typing' and 'stop_typing' alternate.  (isTyping
\* is true from a 'typing' to the next 'stop_typing'.)
C24_TypingStops ==
    [][/\ isTyping' => now' - lastInputAt' <= TypingDebounceMs
       /\ \A k \in 1..Len(emitted') :
             /\ emitted'[k].name = "typing" => ~isTyping /\ isTyping'
             /\ emitted'[k].name = "stop_typing" => isTyping /\ ~isTyping']_vars

\* C25: no step of the chat window sends a message (takes the text out of
\* the input and emits send_message) at a time after the expiresAt of the
\* chat.
C25_NoSendAfterExpiry ==
    [][(/\ trim(messageText) # ""
        /\ messageText' = ""
        /\ \E k \in 1..Len(emitted') : emitted'[k].name = "send_message")
         => ~(chat' # Undefined /\ getTime(chat'.expiresAt).v < now')]_vars

\* C26: while a history fetch of the open chat is in flight, no step takes
\* a message out of the cached message list; the list that a receive_message
\* event has extended is not replaced by a snapshot that lacks the message.
C26_ReceivedMessageStays ==
    [][pendingMessages # Undefined
         => IdsOf(messagesData) \subseteq IdsOf(messagesData')]_vars

\* C27: every message in the cached message list of a chat carries the id
\* of that chat.
C27_ListHoldsOwnChat ==
    \A c \in RouteChats :
        \A k \in 1..Len(messagesOf[c]) : messagesOf[c][k].chatId = c

\* The events keep to the pairing when they are emitted in their order from
\* the given set of joined chats: a join_chat comes only when no chat is
\* joined, a leave_chat only for a chat that is joined.
RECURSIVE Paired(_, _)
Paired(joined, events) ==
    IF events = <<>> THEN TRUE
    ELSE LET e == Head(events)
         IN  /\ CASE e.name = "join_chat" -> joined = {}
                   [] e.name = "leave_chat" -> e.chatId \in joined
                   [] OTHER -> TRUE
             /\ Paired(AfterEvents(joined, <<e>>), Tail(events))

\* C28: the join_chat and leave_chat events of one useChatSocket alternate:
\* the events of every step keep to the pairing, so that the first is a
\* join_chat, a join_chat of a chat is followed by the leave_chat of the same
\* chat before the next join_chat, and at most one chat is joined.
C28_JoinLeavePaired ==
    [][/\ Paired(joinedChats, emitted')
       /\ Cardinality(joinedChats') <= 1]_vars

\* The window has gone from one chat to another: the leave_chat of the
\* first and the join_chat of the second are emitted, in this order.
C28_Witness ==
    \E j, k \in 1..Len(emitted) :
        /\ j < k
        /\ emitted[j].name = "leave_chat"
        /\ emitted[k].name = "join_chat"
        /\ emitted[j].chatId # emitted[k].chatId
        /\ joinedChats = {emitted[k].chatId}

\* C29: when the My Reservations page renders the reservations the server
\* lists for Me, every one of them is in exactly one of the lists Active,
\* Expired and Cancelled.
C29_ShownInOneList ==
    LET reservations == useMyReservations(listLeases(leases, Me), FALSE).data
        page == MyReservations(reservations)
    IN  \A k \in 1..Len(reservations) :
            Cardinality({list \in DOMAIN page :
                            \E j \in 1..Len(page[list]) :
                                page[list][j] = reservations[k]}) = 1

Spec == SpecLease

=============================================================================
